---- MODULE Spec2Model ----
(***************************************************************************)
(* Model of src/src/libertyParser.py: the line-oriented Liberty parser     *)
(* (libertyParser.libertyParser), the tree reorganizer (organizeData), the *)
(* cell subsetter (genCellLibFile), the serializer (restoreLib) and the    *)
(* query functions (getCellList, getLibPinInfo).                           *)
(*                                                                         *)
(* A text line is a sequence of tokens.  A token stands for a run of       *)
(* characters that no regular expression of the program splits: one blank, *)
(* one punctuation mark, the two-character comment marks, or a word.  The  *)
(* regular expressions of the program are written out item by item and     *)
(* matched by a backtracking matcher that follows Python's re semantics    *)
(* (greedy and lazy quantifiers, first successful alternative wins).       *)
(***************************************************************************)
EXTENDS Integers, Sequences, FiniteSets, TLC

\* ------------------------------------------------------------------------
\* Tokens
\* ------------------------------------------------------------------------
SP == " "
LP == "("
RP == ")"
LB == "{"
RB == "}"
COLON == ":"
SEMI == ";"
BSL == "\\"
CS == "/*"
CE == "*/"
QUOTE == "\""

Words == {"library", "cell", "pin", "timing", "internal_power", "bundle", "bus",
          "members", "related_pin", "values", "L", "A", "B", "FAKE",
          "area", "foo", "1", "2", "x", "s", ",", "n", "#", "table", "define",
          "depth", "INV"}

Tok == {SP, LP, RP, LB, RB, COLON, SEMI, BSL, CS, CE, QUOTE} \cup Words

\* character classes of the regular expressions
WS == {SP}
NS == Tok \ WS
ANY == Tok
Lit(t) == {t}

\* one regex item: a character class with a quantifier
One(c) == [set |-> c, q |-> "1"]
Star(c) == [set |-> c, q |-> "*"]
Plus(c) == [set |-> c, q |-> "+"]
Lazy(c) == [set |-> c, q |-> "*?"]

\* ------------------------------------------------------------------------
\* Backtracking matcher (re.match: anchored at the start of the line).
\* ReMatch returns [ok, e]: e[k] is the position after item k in the first
\* successful match in Python's priority order.  end = TRUE stands for a
\* trailing `$`.
\* ------------------------------------------------------------------------
ReFail == [ok |-> FALSE, e |-> <<>>]

RECURSIVE RunLen(_, _, _)
RunLen(set, s, i) ==
    IF i <= Len(s) /\ s[i] \in set THEN 1 + RunLen(set, s, i + 1) ELSE 0

RECURSIVE ReMatch(_, _, _, _, _)
RECURSIVE ReTry(_, _, _, _, _, _, _, _)

\* try n repetitions of item k, then n+d, ... while lo <= n <= hi
ReTry(items, end, k, s, i, n, d, lim) ==
    IF (d = -1 /\ n < lim) \/ (d = 1 /\ n > lim) THEN ReFail
    ELSE LET r == ReMatch(items, end, k + 1, s, i + n)
         IN  IF r.ok THEN [ok |-> TRUE, e |-> <<i + n>> \o r.e]
             ELSE ReTry(items, end, k, s, i, n + d, d, lim)

ReMatch(items, end, k, s, i) ==
    IF k > Len(items)
    THEN IF (~end) \/ i = Len(s) + 1 THEN [ok |-> TRUE, e |-> <<>>] ELSE ReFail
    ELSE LET it == items[k]
             run == RunLen(it.set, s, i)
         IN  CASE it.q = "1" ->
                    IF run >= 1 THEN ReTry(items, end, k, s, i, 1, -1, 1)
                    ELSE ReFail
               [] it.q = "*" -> ReTry(items, end, k, s, i, run, -1, 0)
               [] it.q = "+" -> ReTry(items, end, k, s, i, run, -1, 1)
               [] it.q = "*?" -> ReTry(items, end, k, s, i, 0, 1, run)

Match(re, s) == ReMatch(re.items, re.end, 1, s, 1)
Matches(re, s) == Match(re, s).ok

\* text of the capture group that spans items a..b of a successful match m
Group(m, s, a, b) ==
    LET from == IF a = 1 THEN 1 ELSE m.e[a - 1]
    IN  SubSeq(s, from, m.e[b] - 1)

\* ------------------------------------------------------------------------
\* The pre-compiled regular expressions of libertyParser.__init__
\* ------------------------------------------------------------------------
\* ^(\s*)(\S+)\s*\((.*?)\)\s*{\s*$      groups: 1 = item 1, 2 = item 2, 3 = item 5
_group_re ==
    [items |-> <<Star(WS), Plus(NS), Star(WS), One(Lit(LP)), Lazy(ANY),
                 One(Lit(RP)), Star(WS), One(Lit(LB)), Star(WS)>>, end |-> TRUE]
\* ^\s*}\s*$
_group_done_re ==
    [items |-> <<Star(WS), One(Lit(RB)), Star(WS)>>, end |-> TRUE]
\* ^(\s*)(\S+)\s*:\s*(.+)\s*;.*$        groups: 2 = item 2, 3 = item 6
_simple_attr_re ==
    [items |-> <<Star(WS), Plus(NS), Star(WS), One(Lit(COLON)), Star(WS),
                 Plus(ANY), Star(WS), One(Lit(SEMI)), Star(ANY)>>, end |-> TRUE]
\* ^(\s*)(\S+)\s*:\s*(.+)\s*$
_special_simple_attr_re ==
    [items |-> <<Star(WS), Plus(NS), Star(WS), One(Lit(COLON)), Star(WS),
                 Plus(ANY), Star(WS)>>, end |-> TRUE]
\* ^(\s*)(\S+)\s*(\(.+\))\s*;.*$        groups: 2 = item 2, 3 = items 4..6
_complex_attr_re ==
    [items |-> <<Star(WS), Plus(NS), Star(WS), One(Lit(LP)), Plus(ANY),
                 One(Lit(RP)), Star(WS), One(Lit(SEMI)), Star(ANY)>>, end |-> TRUE]
\* ^(\s*)(\S+)\s*(\(.+\))\s*$
_special_complex_attr_re ==
    [items |-> <<Star(WS), Plus(NS), Star(WS), One(Lit(LP)), Plus(ANY),
                 One(Lit(RP)), Star(WS)>>, end |-> TRUE]
\* ^(.*)\\s*$   (a backslash followed by any number of letters s)
_multilines_re ==
    [items |-> <<Star(ANY), One(Lit(BSL)), Star(Lit("s"))>>, end |-> TRUE]
\* ^(.*;)\s*$                           group 1 = items 1..2
_multilines_done_re ==
    [items |-> <<Star(ANY), One(Lit(SEMI)), Star(WS)>>, end |-> TRUE]
\* ^(\s*)/\*.*$
_comment_start_re ==
    [items |-> <<Star(WS), One(Lit(CS)), Star(ANY)>>, end |-> TRUE]
\* .*\*/\s*$
_comment_end_re ==
    [items |-> <<Star(ANY), One(Lit(CE)), Star(WS)>>, end |-> TRUE]
\* ^\s*$
_empty_line_re ==
    [items |-> <<Star(WS)>>, end |-> TRUE]

\* ------------------------------------------------------------------------
\* Python dict with insertion order: a sequence of <<key, value>> pairs.
\* Keys are token sequences; values are tagged.
\* ------------------------------------------------------------------------
Str(ts) == [t |-> "str", v |-> ts]
Num(n) == [t |-> "int", v |-> <<n>>]
List(l) == [t |-> "list", v |-> l]

DictHas(d, k) == \E i \in 1..Len(d) : d[i][1] = k
DictGet(d, k) == d[CHOOSE i \in 1..Len(d) : d[i][1] = k][2]
DictSet(d, k, val) ==
    IF DictHas(d, k)
    THEN [i \in 1..Len(d) |-> IF d[i][1] = k THEN <<k, val>> ELSE d[i]]
    ELSE Append(d, <<k, val>>)
DictKeys(d) == [i \in 1..Len(d) |-> d[i][1]]

K(w) == <<w>>

\* Python list indexing lst[i] with i possibly negative; 0 when out of range
\* (IndexError), else the 1-based position.
PyIndex(n, i) ==
    IF i >= 0 THEN (IF i < n THEN i + 1 ELSE 0)
    ELSE (IF n + i >= 0 THEN n + i + 1 ELSE 0)

getLastOpenedGroupNum(openedGroupNumList) ==
    IF Len(openedGroupNumList) > 0
    THEN openedGroupNumList[Len(openedGroupNumList)]
    ELSE -1

\* ------------------------------------------------------------------------
\* libertyParser.libertyParser: the state of the loop and one iteration.
\* ------------------------------------------------------------------------
ParserInit ==
    [multiLinesString |-> <<>>, commentMark |-> FALSE, groupList |-> <<>>,
     groupListNum |-> 0, openedGroupNumList |-> <<>>,
     lastOpenedGroupNum |-> -1, libFileLine |-> 0, stderr |-> <<>>,
     exc |-> "none"]

Raise(st, e) == [st EXCEPT !.exc = e]
\* variant: nothing is written to stderr
Log_silent(st, kind) == st
Log(st, kind) ==
    [st EXCEPT !.stderr = Append(@, [kind |-> kind, line |-> st.libFileLine])]

\* groupList[lastOpenedGroupNum][key] = value            (lines 201, 249)
StoreSimple(st, key, value) ==
    LET g == PyIndex(Len(st.groupList), st.lastOpenedGroupNum)
    IN  IF g = 0 THEN Raise(st, "IndexError")
        ELSE [st EXCEPT !.groupList[g] = DictSet(@, key, Str(value))]

\* the scalar -> list accumulation                       (lines 190-196, 236-242)
StoreComplex(st, key, valueList) ==
    LET g == PyIndex(Len(st.groupList), st.lastOpenedGroupNum)
    IN  IF g = 0 THEN Raise(st, "IndexError")
        ELSE LET d == st.groupList[g]
             IN  IF DictHas(d, key)
                 THEN IF DictGet(d, key).t = "list"
                      THEN [st EXCEPT !.groupList[g] =
                               DictSet(d, key, List(Append(DictGet(d, key).v, valueList)))]
                      ELSE [st EXCEPT !.groupList[g] =
                               DictSet(d, key, List(<<DictGet(d, key).v, valueList>>))]
                 ELSE [st EXCEPT !.groupList[g] = DictSet(d, key, Str(valueList))]

\* variant: the parent is the record created last, not the stack top
OpenGroup_previous(st, m, line) ==
    LET currentGroupDic ==
            << <<K("fatherGroupNum"), Num(st.groupListNum - 1)>>,
               <<K("depth"), Num(Len(Group(m, line, 1, 1)))>>,
               <<K("type"), Str(Group(m, line, 2, 2))>>,
               <<K("name"), Str(Group(m, line, 5, 5))>> >>
        opened == Append(st.openedGroupNumList, st.groupListNum)
    IN  [st EXCEPT !.groupList = Append(@, currentGroupDic),
                   !.openedGroupNumList = opened,
                   !.groupListNum = @ + 1,
                   !.lastOpenedGroupNum = getLastOpenedGroupNum(opened)]

\* lines 202-220
OpenGroup(st, m, line) ==
    LET father == getLastOpenedGroupNum(st.openedGroupNumList)
        currentGroupDic ==
            << <<K("fatherGroupNum"), Num(father)>>,
               <<K("depth"), Num(Len(Group(m, line, 1, 1)))>>,
               <<K("type"), Str(Group(m, line, 2, 2))>>,
               <<K("name"), Str(Group(m, line, 5, 5))>> >>
        opened == Append(st.openedGroupNumList, st.groupListNum)
    IN  [st EXCEPT !.groupList = Append(@, currentGroupDic),
                   !.openedGroupNumList = opened,
                   !.groupListNum = @ + 1,
                   !.lastOpenedGroupNum = getLastOpenedGroupNum(opened)]

\* variant: the stack is popped, the current group index is not refreshed
CloseGroup_stale(st) ==
    IF Len(st.openedGroupNumList) = 0 THEN Raise(st, "IndexError")
    ELSE [st EXCEPT !.openedGroupNumList = SubSeq(@, 1, Len(@) - 1)]

\* lines 221-223: list.pop() raises IndexError on an empty list
CloseGroup(st) ==
    IF Len(st.openedGroupNumList) = 0 THEN Raise(st, "IndexError")
    ELSE LET opened == SubSeq(st.openedGroupNumList, 1, Len(st.openedGroupNumList) - 1)
         IN  [st EXCEPT !.openedGroupNumList = opened,
                        !.lastOpenedGroupNum = getLastOpenedGroupNum(opened)]

\* lines 185-252: the if/elif chain on one logical line
Classify(st, line) ==
    IF Matches(_complex_attr_re, line)
    THEN LET m == Match(_complex_attr_re, line)
         IN  StoreComplex(st, Group(m, line, 2, 2), Group(m, line, 4, 6))
    ELSE IF Matches(_simple_attr_re, line)
    THEN LET m == Match(_simple_attr_re, line)
         IN  StoreSimple(st, Group(m, line, 2, 2), Group(m, line, 6, 6))
    ELSE IF Matches(_group_re, line)
    THEN OpenGroup(st, Match(_group_re, line), line)
    ELSE IF Matches(_group_done_re, line)
    THEN CloseGroup(st)
    ELSE IF Matches(_comment_start_re, line)
    THEN IF ~Matches(_comment_end_re, line)
         THEN [st EXCEPT !.commentMark = TRUE] ELSE st
    ELSE IF Matches(_empty_line_re, line)
    THEN st
    ELSE IF Matches(_special_complex_attr_re, line)
    THEN LET m == Match(_special_complex_attr_re, line)
         IN  StoreComplex(Log(st, "Warning: Irregular liberty line"),
                          Group(m, line, 2, 2), Group(m, line, 4, 6))
    ELSE IF Matches(_special_simple_attr_re, line)
    THEN LET m == Match(_special_simple_attr_re, line)
         IN  StoreSimple(Log(st, "Warning: Irregular line"),
                         Group(m, line, 2, 2), Group(m, line, 6, 6))
    ELSE Log(st, "Error: Unrecognizable line")

\* lines 254-255, skipped when the classification raised
ClearMultiLines(st) ==
    IF st.exc = "none" /\ st.multiLinesString # <<>>
    THEN [st EXCEPT !.multiLinesString = <<>>] ELSE st

\* variant: the body without the comment mode of lines 162-165
ParseLine_commentBlind(st0, line) ==
    LET st == [st0 EXCEPT !.libFileLine = @ + 1]
    IN  IF Matches(_multilines_re, line)
        THEN [st EXCEPT !.multiLinesString =
                 @ \o Group(Match(_multilines_re, line), line, 1, 1)]
        ELSE IF st.multiLinesString # <<>>
        THEN IF Matches(_multilines_done_re, line)
             THEN ClearMultiLines(Classify(st,
                     st.multiLinesString
                     \o Group(Match(_multilines_done_re, line), line, 1, 2)))
             ELSE [Log(st, "Error: multi-lines is not finished rightly")
                      EXCEPT !.multiLinesString = <<>>]
        ELSE ClearMultiLines(Classify(st, line))

\* lines 160-255: the body of `for line in LF`
ParseLine(st0, line) ==
    LET st == [st0 EXCEPT !.libFileLine = @ + 1]
    IN  IF st.commentMark
        THEN IF Matches(_comment_end_re, line)
             THEN [st EXCEPT !.commentMark = FALSE] ELSE st
        ELSE IF Matches(_multilines_re, line)
        THEN [st EXCEPT !.multiLinesString =
                 @ \o Group(Match(_multilines_re, line), line, 1, 1)]
        ELSE IF st.multiLinesString # <<>>
        THEN IF Matches(_multilines_done_re, line)
             THEN ClearMultiLines(Classify(st,
                     st.multiLinesString
                     \o Group(Match(_multilines_done_re, line), line, 1, 2)))
             ELSE [Log(st, "Error: multi-lines is not finished rightly")
                      EXCEPT !.multiLinesString = <<>>]
        ELSE ClearMultiLines(Classify(st, line))

RECURSIVE ParseLines(_, _, _)
\* the whole loop over the lines of a file, stopping at an exception
ParseLines(st, lines, i) ==
    IF i > Len(lines) \/ st.exc # "none" THEN st
    ELSE ParseLines(ParseLine(st, lines[i]), lines, i + 1)

\* ------------------------------------------------------------------------
\* organizeData (lines 264-279).  The nested dictionaries are kept by index:
\* the value of key 'group' is the list of the children's indices.
\* ------------------------------------------------------------------------
Grp(l) == [t |-> "group", v |-> l]

RECURSIVE OrganizeFrom(_, _)
\* for i in range(len(groupList)-1, 0, -1), with 0-based i
OrganizeFrom(gl, i) ==
    IF i < 1 THEN gl
    ELSE LET father == DictGet(gl[i + 1], K("fatherGroupNum")).v[1]
         IN  IF father # -1
             THEN LET f == PyIndex(Len(gl), father)
                      d0 == IF DictHas(gl[f], K("group")) THEN gl[f]
                            ELSE DictSet(gl[f], K("group"), Grp(<<>>))
                      d1 == DictSet(d0, K("group"),
                                    Grp(<<i>> \o DictGet(d0, K("group")).v))
                  IN  OrganizeFrom([gl EXCEPT ![f] = d1], i - 1)
             ELSE OrganizeFrom(gl, i - 1)

\* variant: children appended instead of inserted at the front
RECURSIVE OrganizeAppending(_, _)
OrganizeAppending(gl, i) ==
    IF i < 1 THEN gl
    ELSE LET father == DictGet(gl[i + 1], K("fatherGroupNum")).v[1]
         IN  IF father # -1
             THEN LET f == PyIndex(Len(gl), father)
                      d0 == IF DictHas(gl[f], K("group")) THEN gl[f]
                            ELSE DictSet(gl[f], K("group"), Grp(<<>>))
                      d1 == DictSet(d0, K("group"),
                                    Grp(Append(DictGet(d0, K("group")).v, i)))
                  IN  OrganizeAppending([gl EXCEPT ![f] = d1], i - 1)
             ELSE OrganizeAppending(gl, i - 1)
organizeData_appending(groupList) == OrganizeAppending(groupList, Len(groupList) - 1)

organizeData(groupList) == OrganizeFrom(groupList, Len(groupList) - 1)

\* ------------------------------------------------------------------------
\* Query functions
\* ------------------------------------------------------------------------
\* `x in lst`
InList(l, x) == \E j \in 1..Len(l) : l[j] = x

RECURSIVE LStrip(_)
LStrip(ts) == IF Len(ts) > 0 /\ ts[1] \in WS THEN LStrip(Tail(ts)) ELSE ts
RECURSIVE RStrip(_)
RStrip(ts) ==
    IF Len(ts) > 0 /\ ts[Len(ts)] \in WS THEN RStrip(SubSeq(ts, 1, Len(ts) - 1))
    ELSE ts
\* str.strip()
Strip(ts) == RStrip(LStrip(ts))

\* the dictionaries of libDic['group'] for the dictionary at index g (0-based)
Children(gl, g) ==
    IF DictHas(gl[g + 1], K("group")) THEN DictGet(gl[g + 1], K("group")).v
    ELSE <<>>

RECURSIVE SelectCells(_, _, _)
SelectCells(gl, ch, i) ==
    IF i > Len(ch) THEN <<>>
    ELSE (IF DictGet(gl[ch[i] + 1], K("type")) = Str(K("cell"))
          THEN <<DictGet(gl[ch[i] + 1], K("name")).v>> ELSE <<>>)
         \o SelectCells(gl, ch, i + 1)

\* getCellList (lines 364-374) on libDic = dictionary 0 of the organized list
getCellList(gl) == SelectCells(gl, Children(gl, 0), 1)

TypeIs(groupDic, w) ==
    DictHas(groupDic, K("type")) /\ DictGet(groupDic, K("type")) = Str(K(w))

\* dict.setdefault(key, default) as the dictionary after the call
SetDefault(d, k, default) == IF DictHas(d, k) THEN d ELSE DictSet(d, k, default)

\* groupDic.get('area', '')
AreaOf(groupDic) ==
    IF DictHas(groupDic, K("area")) THEN DictGet(groupDic, K("area")) ELSE Str(<<>>)

RECURSIVE CellAreas(_, _, _, _, _)
\* lines 382-387: the loop over the groups of the library
CellAreas(cellAreaDic, gl, ch, j, cells) ==
    IF j > Len(ch) THEN cellAreaDic
    ELSE LET groupDic == gl[ch[j] + 1]
             cellName == DictGet(groupDic, K("name")).v
         IN  CellAreas(IF TypeIs(groupDic, "cell")
                          /\ (Len(cells) = 0 \/ InList(cells, cellName))
                       THEN DictSet(cellAreaDic, cellName, AreaOf(groupDic))
                       ELSE cellAreaDic,
                       gl, ch, j + 1, cells)

RECURSIVE PadMissing(_, _, _)
\* lines 389-391: every requested name that is still missing gets ''
PadMissing(cellAreaDic, cells, j) ==
    IF j > Len(cells) THEN cellAreaDic
    ELSE PadMissing(SetDefault(cellAreaDic, cells[j], Str(<<>>)), cells, j + 1)

\* getCellArea without the loop of lines 389-391
getCellArea_unpadded(gl, cells) ==
    IF DictHas(gl[1], K("group"))
    THEN CellAreas(<<>>, gl, Children(gl, 0), 1, cells) ELSE <<>>

\* getCellArea (lines 376-392)
getCellArea(gl, cells) ==
    PadMissing(IF DictHas(gl[1], K("group"))
               THEN CellAreas(<<>>, gl, Children(gl, 0), 1, cells) ELSE <<>>,
               cells, 1)

\* ------------------------------------------------------------------------
\* getLibPinInfo and its helpers (lines 415-576).  Result dictionaries are
\* sequences of <<key, value>> pairs like the parsed ones; a nested
\* dictionary is Dic(d), a list of dictionaries is Lst(l).
\* ------------------------------------------------------------------------
Dic(d) == [t |-> "dict", v |-> d]
Lst(l) == [t |-> "dlist", v |-> l]

RECURSIVE CopyKeys(_, _, _, _)
\* for key in keys: if key in groupDic: out[key] = groupDic[key]
CopyKeys(out, groupDic, keys, j) ==
    IF j > Len(keys) THEN out
    ELSE CopyKeys(IF DictHas(groupDic, K(keys[j]))
                  THEN DictSet(out, K(keys[j]), DictGet(groupDic, K(keys[j])))
                  ELSE out,
                  groupDic, keys, j + 1)

\* d.setdefault(key, []).append(x)
AppendTo(d, k, x) ==
    DictSet(d, k, Lst(Append(DictGet(SetDefault(d, k, Lst(<<>>)), k).v, x)))

RECURSIVE TableTypes(_, _, _, _, _, _)
\* the loop over the table groups of a timing / internal_power group
TableTypes(tt, gl, ch, j, withName, keys) ==
    IF j > Len(ch) THEN tt
    ELSE LET sub == gl[ch[j] + 1]
             ty == DictGet(sub, K("type")).v
             name == DictGet(sub, K("name"))
             d0 == IF withName /\ name.v # <<>>
                   THEN << <<K("template_name"), name>> >> ELSE <<>>
             d1 == CopyKeys(d0, sub, keys, 1)
         IN  TableTypes(DictSet(tt, ty, Dic(d1)), gl, ch, j + 1, withName, keys)

\* lines 415-439
_getTimingGroupInfo(gl, g) ==
    LET groupDic == gl[g + 1]
    IN  IF ~TypeIs(groupDic, "timing") THEN <<>>
        ELSE LET d0 == CopyKeys(<<>>, groupDic,
                          <<"related_pin", "related_pg_pin", "timing_sense",
                            "timing_type", "when">>, 1)
             IN  IF DictHas(groupDic, K("group"))
                 THEN DictSet(d0, K("table_type"),
                         Dic(TableTypes(<<>>, gl, Children(gl, g), 1, TRUE,
                                <<"sigma_type", "index_1", "index_2", "values">>)))
                 ELSE d0

\* lines 441-461
_getInternalPowerGroupInfo(gl, g) ==
    LET groupDic == gl[g + 1]
    IN  IF ~TypeIs(groupDic, "internal_power") THEN <<>>
        ELSE LET d0 == CopyKeys(<<>>, groupDic,
                          <<"related_pin", "related_pg_pin", "when">>, 1)
             IN  IF DictHas(groupDic, K("group"))
                 THEN DictSet(d0, K("table_type"),
                         Dic(TableTypes(<<>>, gl, Children(gl, g), 1, FALSE,
                                <<"index_1", "index_2", "values">>)))
                 ELSE d0

RECURSIVE TimingAndPower(_, _, _, _)
\* lines 469-476: the loop over the groups of a pin
TimingAndPower(out, gl, ch, j) ==
    IF j > Len(ch) THEN out
    ELSE LET sub == gl[ch[j] + 1]
         IN  TimingAndPower(
                 IF TypeIs(sub, "timing")
                 THEN AppendTo(out, K("timing"), Dic(_getTimingGroupInfo(gl, ch[j])))
                 ELSE IF TypeIs(sub, "internal_power")
                 THEN AppendTo(out, K("internal_power"),
                               Dic(_getInternalPowerGroupInfo(gl, ch[j])))
                 ELSE out,
                 gl, ch, j + 1)

\* lines 463-477
_getPinInfo(gl, g) ==
    IF TypeIs(gl[g + 1], "pin") /\ DictHas(gl[g + 1], K("group"))
    THEN TimingAndPower(<<>>, gl, Children(gl, g), 1)
    ELSE <<>>

Filtered(filter, name) == Len(filter) > 0 /\ ~InList(filter, name)

RECURSIVE SubGroups(_, _, _, _, _)
\* lines 491-507 and 515-531: the loop over the sub-groups of a bundle / bus
SubGroups(out, gl, ch, j, pinList) ==
    IF j > Len(ch) THEN out
    ELSE LET sub == gl[ch[j] + 1]
             pinName == DictGet(sub, K("name")).v
         IN  SubGroups(
                 IF TypeIs(sub, "pin")
                 THEN IF Filtered(pinList, pinName) THEN out
                      ELSE LET d0 == SetDefault(out, K("pin"), Dic(<<>>))
                               pinDic == _getPinInfo(gl, ch[j])
                           IN  IF pinDic # <<>>
                               THEN DictSet(d0, K("pin"),
                                       Dic(DictSet(DictGet(d0, K("pin")).v,
                                                   pinName, Dic(pinDic))))
                               ELSE d0
                 ELSE IF TypeIs(sub, "timing")
                 THEN AppendTo(out, K("timing"), Dic(_getTimingGroupInfo(gl, ch[j])))
                 ELSE IF TypeIs(sub, "internal_power")
                 THEN AppendTo(out, K("internal_power"),
                               Dic(_getInternalPowerGroupInfo(gl, ch[j])))
                 ELSE out,
                 gl, ch, j + 1, pinList)

RECURSIVE MemberNames(_, _)
\* re.sub(r'[\(")\s]', '', members).split(',')
MemberNames(ts, cur) ==
    IF ts = <<>> THEN <<cur>>
    ELSE IF Head(ts) \in {LP, QUOTE, RP, SP} THEN MemberNames(Tail(ts), cur)
    ELSE IF Head(ts) = "," THEN <<cur>> \o MemberNames(Tail(ts), <<>>)
    ELSE MemberNames(Tail(ts), Append(cur, Head(ts)))

RECURSIVE Predeclare(_, _, _)
\* lines 488-489
Predeclare(pins, names, j) ==
    IF j > Len(names) THEN pins
    ELSE Predeclare(SetDefault(pins, Strip(names[j]), Dic(<<>>)), names, j + 1)

\* lines 479-508
_getBundleInfo(gl, g, pinList) ==
    LET groupDic == gl[g + 1]
        d0 == IF DictHas(groupDic, K("members"))
              THEN << <<K("pin"),
                        Dic(Predeclare(<<>>,
                              MemberNames(DictGet(groupDic, K("members")).v, <<>>), 1))>> >>
              ELSE <<>>
    IN  IF DictHas(groupDic, K("group"))
        THEN SubGroups(d0, gl, Children(gl, g), 1, pinList)
        ELSE d0

\* lines 510-532
_getBusInfo(gl, g, pinList) ==
    IF DictHas(gl[g + 1], K("group"))
    THEN SubGroups(<<>>, gl, Children(gl, g), 1, pinList)
    ELSE <<>>

\* libPinDic.setdefault('cell', ..).setdefault(cellName, ..).setdefault(kind, ..)[name] = d
PutInfo(libPinDic, cellName, kind, name, d) ==
    LET l0 == SetDefault(libPinDic, K("cell"), Dic(<<>>))
        cells == SetDefault(DictGet(l0, K("cell")).v, cellName, Dic(<<>>))
        cell == SetDefault(DictGet(cells, cellName).v, K(kind), Dic(<<>>))
        kindDic == DictSet(DictGet(cell, K(kind)).v, name, Dic(d))
    IN  DictSet(l0, K("cell"),
            Dic(DictSet(cells, cellName, Dic(DictSet(cell, K(kind), Dic(kindDic))))))

RECURSIVE CellGroups(_, _, _, _, _, _, _, _)
\* lines 549-575: the loop over the groups of one cell
CellGroups(libPinDic, gl, cellName, ch, j, bundleList, busList, pinList) ==
    IF j > Len(ch) THEN libPinDic
    ELSE LET sub == gl[ch[j] + 1]
             name == DictGet(sub, K("name")).v
             info == IF TypeIs(sub, "pin") THEN _getPinInfo(gl, ch[j])
                     ELSE IF TypeIs(sub, "bundle") THEN _getBundleInfo(gl, ch[j], pinList)
                     ELSE IF TypeIs(sub, "bus") THEN _getBusInfo(gl, ch[j], pinList)
                     ELSE <<>>
             skip == IF TypeIs(sub, "pin") THEN Filtered(pinList, name)
                     ELSE IF TypeIs(sub, "bundle") THEN Filtered(bundleList, name)
                     ELSE IF TypeIs(sub, "bus") THEN Filtered(busList, name)
                     ELSE TRUE
             kind == DictGet(sub, K("type")).v[1]
         IN  CellGroups(IF ~skip /\ info # <<>>
                        THEN PutInfo(libPinDic, cellName, kind, name, info)
                        ELSE libPinDic,
                        gl, cellName, ch, j + 1, bundleList, busList, pinList)

RECURSIVE LibGroups(_, _, _, _, _, _, _, _)
\* lines 542-575: the loop over the groups of the library
LibGroups(libPinDic, gl, ch, j, cells, bundleList, busList, pinList) ==
    IF j > Len(ch) THEN libPinDic
    ELSE LET sub == gl[ch[j] + 1]
             cellName == DictGet(sub, K("name")).v
         IN  LibGroups(
                 IF TypeIs(sub, "cell") /\ ~Filtered(cells, cellName)
                    /\ DictHas(sub, K("group"))
                 THEN CellGroups(libPinDic, gl, cellName, Children(gl, ch[j]), 1,
                                 bundleList, busList, pinList)
                 ELSE libPinDic,
                 gl, ch, j + 1, cells, bundleList, busList, pinList)

\* lines 534-576
getLibPinInfo(gl, cells, bundleList, busList, pinList) ==
    IF ~DictHas(gl[1], K("group")) THEN <<>>
    ELSE LibGroups(<<>>, gl, Children(gl, 0), 1, cells, bundleList, busList, pinList)

\* lines 484-485: re.sub on a `members` value that is a list (the attribute
\* given twice in one bundle) raises TypeError; it is reached for every
\* bundle that passes the cell and bundle filters
PinInfoRaises(gl, cells, bundleList) ==
    /\ DictHas(gl[1], K("group"))
    /\ \E c \in 1..Len(Children(gl, 0)) :
          LET cell == Children(gl, 0)[c]
          IN  /\ TypeIs(gl[cell + 1], "cell")
              /\ ~Filtered(cells, DictGet(gl[cell + 1], K("name")).v)
              /\ \E b \in 1..Len(Children(gl, cell)) :
                    LET bundle == gl[Children(gl, cell)[b] + 1]
                    IN  /\ TypeIs(bundle, "bundle")
                        /\ ~Filtered(bundleList, DictGet(bundle, K("name")).v)
                        /\ DictHas(bundle, K("members"))
                        /\ DictGet(bundle, K("members")).t = "list"

\* ------------------------------------------------------------------------
\* Text files.  A file is its lines plus nl: whether the last line ends with
\* a newline.  f.writelines / f.write append text, so a line written after
\* an unterminated line continues that line.
\* ------------------------------------------------------------------------
EmptyFile == [lines |-> <<>>, nl |-> TRUE]

\* is line j of file f terminated by a newline
Terminated(f, j) == j < Len(f.lines) \/ f.nl

WriteLine(out, line, terminated) ==
    IF out.nl
    THEN [lines |-> Append(out.lines, line), nl |-> terminated]
    ELSE [lines |-> [j \in 1..Len(out.lines) |->
                        IF j = Len(out.lines) THEN out.lines[j] \o line
                        ELSE out.lines[j]],
          nl |-> terminated]

RECURSIVE WriteSlice(_, _, _, _)
\* f_out.writelines(all_lines[from:to]) with Python's 0-based slice bounds
WriteSlice(out, f, from, to) ==
    IF from >= to \/ from >= Len(f.lines) THEN out
    ELSE WriteSlice(WriteLine(out, f.lines[from + 1], Terminated(f, from + 1)),
                    f, from + 1, to)

\* ------------------------------------------------------------------------
\* restoreLib and _restoreLib (lines 283-349).  The state of a restore is the
\* file written so far and the exception raised, if any.
\* ------------------------------------------------------------------------
Indent(n) == [j \in 1..n |-> SP]
\* the two characters \ and n that the format strings '... \\n' produce
BackslashN == <<BSL, "n">>

Put(rs, text, terminated) ==
    IF rs.exc # "none" THEN rs
    ELSE [rs EXCEPT !.f = WriteLine(rs.f, text, terminated)]

\* re.sub(r'\(|\)', '', value) and value.replace('"', '')
Without(ts, drop) == SelectSeq(ts, LAMBDA t : t \notin drop)

RECURSIVE SkipWS(_, _)
SkipWS(ts, i) == IF i <= Len(ts) /\ ts[i] \in WS THEN SkipWS(ts, i + 1) ELSE i

\* length of a match of "\s*,\s*" at position i, 0 if there is none
SepLen(ts, i) ==
    IF ts[i] # QUOTE THEN 0
    ELSE LET j == SkipWS(ts, i + 1)
         IN  IF j > Len(ts) \/ ts[j] # "," THEN 0
             ELSE LET h == SkipWS(ts, j + 1)
                  IN  IF h > Len(ts) \/ ts[h] # QUOTE THEN 0 ELSE h - i + 1

RECURSIVE SplitValues(_, _, _)
\* re.split('#', re.sub(r'"\s*,\s*"', '"#"', valueString))   (lines 313-314)
SplitValues(ts, i, cur) ==
    IF i > Len(ts) THEN <<cur>>
    ELSE IF SepLen(ts, i) > 0
    THEN <<Append(cur, QUOTE)>> \o SplitValues(ts, i + SepLen(ts, i), <<QUOTE>>)
    ELSE IF ts[i] = "#"
    THEN <<cur>> \o SplitValues(ts, i + 1, <<>>)
    ELSE SplitValues(ts, i + 1, Append(cur, ts[i]))

RECURSIVE SplitComma(_, _, _)
\* valueString.split(',')                                    (line 325)
SplitComma(ts, i, cur) ==
    IF i > Len(ts) THEN <<cur>>
    ELSE IF ts[i] = ","
    THEN <<cur>> \o SplitComma(ts, i + 1, <<>>)
    ELSE SplitComma(ts, i + 1, Append(cur, ts[i]))

RECURSIVE WriteValues(_, _, _, _)
\* lines 316-321
WriteValues(rs, depth, valuesList, i) ==
    IF i > Len(valuesList) THEN rs
    ELSE WriteValues(
            Put(rs, Indent(4 * depth) \o Indent(4) \o Strip(valuesList[i])
                    \o (IF i = Len(valuesList) THEN <<SP>> ELSE <<",", SP>>)
                    \o BackslashN, FALSE),
            depth, valuesList, i + 1)

RECURSIVE WriteTable(_, _, _)
\* lines 328-333, valueList stripped at line 325
WriteTable(rs, valueList, i) ==
    IF i > Len(valueList) THEN rs
    ELSE WriteTable(
            IF i = Len(valueList)
            THEN Put(rs, Strip(valueList[i]) \o <<QUOTE, SEMI>>, TRUE)
            ELSE Put(rs, Strip(valueList[i]) \o <<",", SP>> \o BackslashN, FALSE),
            valueList, i + 1)

\* re.match(r'\(.+\)', item): a prefix of the item is ( ... )
ParenPrefix(item) ==
    /\ Len(item) >= 3
    /\ item[1] = LP
    /\ \E j \in 3..Len(item) : item[j] = RP

\* lines 336-342 and 344-347 for one item
WriteItem(rs, depth, key, item, inList) ==
    IF ParenPrefix(item)
    THEN IF inList /\ key = K("define")
         THEN Put(rs, Indent(2 * depth) \o Indent(2) \o key \o item \o <<SEMI>>, TRUE)
         ELSE Put(rs, Indent(2 * depth) \o Indent(2) \o key \o <<SP>> \o item
                      \o <<SEMI>>, TRUE)
    ELSE Put(rs, Indent(2 * depth) \o Indent(2) \o key \o <<SP, COLON, SP>> \o item
                 \o <<SEMI>>, TRUE)

RECURSIVE WriteItems(_, _, _, _, _)
\* line 335
WriteItems(rs, depth, key, items, i) ==
    IF i > Len(items) THEN rs
    ELSE WriteItems(WriteItem(rs, depth, key, items[i], TRUE), depth, key, items, i + 1)

\* lines 310-347 for one key that is neither reserved nor 'group'; re.sub and
\* str.replace do not take a list
WriteAttribute(rs, depth, key, value) ==
    IF key = K("values")
    THEN LET opened == Put(rs, Indent(2 * depth) \o Indent(2) \o key
                                   \o <<SP, LP, SP>> \o BackslashN, FALSE)
         IN  IF value.t # "str" THEN [opened EXCEPT !.exc = "TypeError"]
             ELSE Put(WriteValues(opened, depth,
                                  SplitValues(Without(value.v, {LP, RP}), 1, <<>>), 1),
                      Indent(2 * depth) \o Indent(2) \o <<RP, SEMI>>, TRUE)
    ELSE IF key = K("table")
    THEN IF value.t # "str" THEN [rs EXCEPT !.exc = "AttributeError"]
         ELSE LET valueList == SplitComma(Without(value.v, {QUOTE}), 1, <<>>)
              IN  WriteTable(
                     Put(rs, Indent(2 * depth) \o Indent(2) \o key
                             \o <<SP, COLON, SP, QUOTE>> \o Strip(valueList[1])
                             \o <<",", SP>> \o BackslashN, FALSE),
                     valueList, 2)
    ELSE IF value.t = "list"
    THEN WriteItems(rs, depth, key, value.v, 1)
    ELSE WriteItem(rs, depth, key, value.v, FALSE)

ReservedKeys == {K("fatherGroupNum"), K("depth"), K("type"), K("name")}

RECURSIVE RestoreGroup(_, _, _)
RECURSIVE RestoreEntries(_, _, _, _)
RECURSIVE RestoreSubGroups(_, _, _, _)

\* lines 308-309
RestoreSubGroups(rs, gl, subGroupList, j) ==
    IF j > Len(subGroupList) \/ rs.exc # "none" THEN rs
    ELSE RestoreSubGroups(RestoreGroup(rs, gl, subGroupList[j]), gl, subGroupList, j + 1)

\* lines 302-347: for key, value in groupDic.items()
RestoreEntries(rs, gl, g, i) ==
    IF i > Len(gl[g + 1]) \/ rs.exc # "none" THEN rs
    ELSE LET key == gl[g + 1][i][1]
             value == gl[g + 1][i][2]
             depth == DictGet(gl[g + 1], K("depth")).v[1]
         IN  RestoreEntries(
                IF key \in ReservedKeys THEN rs
                ELSE IF key = K("group")
                THEN RestoreSubGroups(rs, gl, value.v, 1)
                ELSE WriteAttribute(rs, depth, key, value),
                gl, g, i + 1)

\* _restoreLib (lines 292-349) on the dictionary at index g; ' ' * groupDepth
\* needs an integer
RestoreGroup(rs, gl, g) ==
    LET groupDic == gl[g + 1]
        groupDepth == DictGet(groupDic, K("depth"))
        groupType == DictGet(groupDic, K("type"))
        groupName == DictGet(groupDic, K("name"))
    IN  IF rs.exc # "none" THEN rs
        ELSE IF groupDepth.t # "int" THEN [rs EXCEPT !.exc = "TypeError"]
        ELSE LET opened == Put(rs, Indent(groupDepth.v[1]) \o groupType.v
                                   \o <<SP, LP>> \o groupName.v \o <<RP, SP, LB>>, TRUE)
                 body == RestoreEntries(opened, gl, g, 1)
             IN  Put(body, Indent(groupDepth.v[1]) \o <<RB>>, TRUE)

\* restoreLib (lines 283-290) on libDic, into a new file
restoreLib(gl) == RestoreGroup([f |-> EmptyFile, exc |-> "none"], gl, 0)

\* ------------------------------------------------------------------------
\* genCellLibFile (lines 59-131)
\* ------------------------------------------------------------------------
\* ^\s*cell\s*\((.*?)\)\s*{\s*$        group 1 = item 5
cell_re ==
    [items |-> <<Star(WS), One(Lit("cell")), Star(WS), One(Lit(LP)), Lazy(ANY),
                 One(Lit(RP)), Star(WS), One(Lit(LB)), Star(WS)>>, end |-> TRUE]
\* ^\s*/\*        used with match: no anchor at the end
comment_start_re ==
    [items |-> <<Star(WS), One(Lit(CS))>>, end |-> FALSE]
\* \*/\s*$        used with search: any text may precede
comment_end_re ==
    [items |-> <<Star(ANY), One(Lit(CE)), Star(WS)>>, end |-> TRUE]

\* lines 90-92
CellName(m, line) ==
    LET cell_name == Strip(Group(m, line, 5, 5))
    IN  IF Len(cell_name) > 0 /\ cell_name[1] = QUOTE
           /\ cell_name[Len(cell_name)] = QUOTE
        THEN SubSeq(cell_name, 2, Len(cell_name) - 1)
        ELSE cell_name

\* lines 79-93: one iteration of the scan loop on line number i
ScanStep(sc, line, i) ==
    IF sc.in_comment
    THEN IF Matches(comment_end_re, line)
         THEN [sc EXCEPT !.in_comment = FALSE] ELSE sc
    ELSE IF Matches(comment_start_re, line)
    THEN IF ~Matches(comment_end_re, line)
         THEN [sc EXCEPT !.in_comment = TRUE] ELSE sc
    ELSE IF Matches(cell_re, line)
    THEN [sc EXCEPT !.cell_locations =
             DictSet(@, CellName(Match(cell_re, line), line), i)]
    ELSE sc

\* list.index(x): 0-based position of the first occurrence
ListIndex(l, x) == (CHOOSE j \in 1..Len(l) : l[j] = x /\ \A h \in 1..(j - 1) : l[h] # x) - 1

\* variant: only the first missing cell is collected
RECURSIVE MissingCells_first(_, _, _)
MissingCells_first(cells, all_cells_in_file, j) ==
    IF j > Len(cells) THEN <<>>
    ELSE IF InList(all_cells_in_file, cells[j])
         THEN MissingCells_first(cells, all_cells_in_file, j + 1)
         ELSE <<cells[j]>>

\* line 99
RECURSIVE MissingCells(_, _, _)
MissingCells(cells, all_cells_in_file, j) ==
    IF j > Len(cells) THEN <<>>
    ELSE (IF InList(all_cells_in_file, cells[j]) THEN <<>> ELSE <<cells[j]>>)
         \o MissingCells(cells, all_cells_in_file, j + 1)

\* lines 110-111
WriteHeader(out, f, cell_locations) ==
    LET all_cells_in_file == DictKeys(cell_locations)
        first_cell_line_num == DictGet(cell_locations, all_cells_in_file[1])
    IN  WriteSlice(out, f, 0, first_cell_line_num - 1)

\* lines 115-126: one iteration of `for cell in cellList`
WriteCell(out, f, cell_locations, cell) ==
    LET all_cells_in_file == DictKeys(cell_locations)
        cell_start_line == DictGet(cell_locations, cell)
        cell_index == ListIndex(all_cells_in_file, cell)
        last == (cell_index = Len(all_cells_in_file) - 1)
        cell_end_line ==
            IF last THEN Len(f.lines)
            ELSE DictGet(cell_locations, all_cells_in_file[cell_index + 2])
    IN  WriteSlice(out, f, cell_start_line - 1,
                   IF ~last THEN cell_end_line - 1 ELSE cell_end_line)

\* ------------------------------------------------------------------------
\* Input lines
\* ------------------------------------------------------------------------
LibOpen == <<"library", SP, LP, "L", RP, SP, LB>>
CellOpen(n) == <<SP, "cell", SP, LP, n, RP, SP, LB>>
PinOpen(n) == <<SP, SP, "pin", LP, n, RP, LB>>
TimingOpen == <<SP, SP, SP, "timing", LP, RP, LB>>
Close == <<RB>>
Simple(k, val) == <<k, SP, COLON, SP, val, SEMI>>
Complex(k, val) == <<k, SP, LP, val, RP, SEMI>>
SimpleNoSemi(k, val) == <<k, COLON, val>>
ComplexNoSemi(k, val) == <<k, LP, val, RP>>
CommentStart == <<CS, SP, "x">>
CommentEnd == <<"x", SP, CE>>
CommentLine == <<CS, SP, "x", SP, CE>>
Continued == <<"foo", SP, LP, BSL>>
ContinuedEnd == <<"1", RP, SEMI>>
Blank == <<>>
Garbage == <<"x">>

\* the lines a file of the line-by-line specification is made of
ParseAlphabet ==
    {LibOpen, CellOpen("A"), CellOpen("FAKE"), Close,
     Simple("foo", "1"), Simple("foo", "2"), Complex("foo", "1"),
     SimpleNoSemi("foo", "1"), ComplexNoSemi("foo", "2"),
     CommentStart, CommentEnd, Continued, ContinuedEnd, Blank, Garbage}

MaxLines == 4

\* the files of the constructor specification: a header, up to MaxBlocks
\* blocks and a trailer, with or without a newline after the last line
CellA == <<CellOpen("A"), Simple("area", "1"), Close>>
CellB == <<CellOpen("B"), PinOpen("x"), TimingOpen, Close, Close, Close>>
CommentedCell == <<CommentStart, CellOpen("A"), Close, CommentEnd>>
Blocks == {CellA, CellB, CommentedCell}
Headers ==
    {<<LibOpen>>, <<CommentLine, LibOpen, Continued, ContinuedEnd>> \o CommentedCell}
Trailers == {<<Close>>, <<>>}

MaxBlocks == 2
MaxRequest == 2

RECURSIVE BlockSeqs(_)
BlockSeqs(n) ==
    IF n = 0 THEN {<<>>}
    ELSE BlockSeqs(n - 1)
         \cup {b \o bs : b \in Blocks, bs \in {x \in BlockSeqs(n - 1) : TRUE}}

Files ==
    {[lines |-> h \o bs \o t, nl |-> nl] :
        h \in Headers, bs \in BlockSeqs(MaxBlocks), t \in Trailers, nl \in BOOLEAN}

\* the cell names a caller asks for
CellNames == {<<"A">>, <<"B">>, <<"FAKE">>}
RECURSIVE Requests(_)
Requests(n) ==
    IF n = 0 THEN {<<>>}
    ELSE Requests(n - 1) \cup {Append(r, c) : r \in Requests(n - 1), c \in CellNames}

\* libraries whose cells hold pins, bundles and buses, for the query calls
BundleOpen(n) == <<SP, SP, "bundle", LP, n, RP, LB>>
BusOpen(n) == <<SP, SP, "bus", SP, LP, n, RP, SP, LB>>
Members == <<SP, SP, SP, "members", LP, "A", ",", SP, "x", RP, SEMI>>
TimedPin(n) == <<PinOpen(n), TimingOpen, Close, Close>>
PinCell ==
    <<CellOpen("A"), Simple("area", "1")>> \o TimedPin("x")
        \o <<BundleOpen("B"), Members>> \o TimedPin("A") \o <<Close, Close>>
BusCell ==
    <<CellOpen("B"), BusOpen("x")>> \o TimedPin("B") \o TimedPin("x") \o <<Close, Close>>
TwiceMembers ==
    <<CellOpen("x"), Complex("area", "2"), BundleOpen("x"), Members, Members, Close, Close>>
QueryCells == {PinCell, BusCell, TwiceMembers}

MaxCells == 2

RECURSIVE CellSeqs(_)
CellSeqs(n) ==
    IF n = 0 THEN {<<>>}
    ELSE CellSeqs(n - 1) \cup {c \o cs : c \in QueryCells, cs \in CellSeqs(n - 1)}

QueryFiles ==
    {[lines |-> <<LibOpen>> \o cs \o <<Close>>, nl |-> TRUE] : cs \in CellSeqs(MaxCells)}

\* the name lists a caller passes to the query functions
NameLists ==
    {<<>>, <<K("A")>>, <<K("B")>>, <<K("x")>>, <<K("FAKE")>>, <<K("A"), K("FAKE")>>}

\* ------------------------------------------------------------------------
\* State
\* ------------------------------------------------------------------------
VARIABLES
    pc,                  \* position in __init__
    libFile,             \* the liberty file given to the constructor
    cellList,            \* the constructor's cellList argument
    in_comment, cell_locations,   \* genCellLibFile: the scan loop
    scanned,             \* genCellLibFile: lines the scan loop has read
    written,             \* genCellLibFile: cells of cellList written so far
    cellLibFile,         \* the reduced file on disk, NoFile while absent
    LF,                  \* the lines of the file the parser reads
    multiLinesString, commentMark, groupList, groupListNum,
    openedGroupNumList, lastOpenedGroupNum, libFileLine,
    stderr,              \* diagnostics printed so far
    exc,                 \* "none", or the exception that ended the run
    libDic,              \* organizeData's result: the organized list, root = 0
    query, result,       \* the last query call on the finished parser, its outcome
    inst, disk           \* constructors running side by side, the files they share

parserVars == <<multiLinesString, commentMark, groupList, groupListNum,
                openedGroupNumList, lastOpenedGroupNum, libFileLine>>
genVars == <<in_comment, cell_locations, scanned, written, cellLibFile>>
queryVars == <<query, result>>
parVars == <<inst, disk>>
vars == <<pc, libFile, cellList, genVars, LF, parserVars, stderr, exc, libDic,
          queryVars, parVars>>

\* the loop state as one record, and back
ParserState ==
    [multiLinesString |-> multiLinesString, commentMark |-> commentMark,
     groupList |-> groupList, groupListNum |-> groupListNum,
     openedGroupNumList |-> openedGroupNumList,
     lastOpenedGroupNum |-> lastOpenedGroupNum, libFileLine |-> libFileLine,
     stderr |-> stderr, exc |-> exc]

SetParserState(st) ==
    /\ multiLinesString' = st.multiLinesString
    /\ commentMark' = st.commentMark
    /\ groupList' = st.groupList
    /\ groupListNum' = st.groupListNum
    /\ openedGroupNumList' = st.openedGroupNumList
    /\ lastOpenedGroupNum' = st.lastOpenedGroupNum
    /\ libFileLine' = st.libFileLine
    /\ stderr' = st.stderr
    /\ exc' = st.exc

NoDic == <<>>
NoFile == [lines |-> <<>>, nl |-> FALSE]

\* no query has been made; one constructor runs on its own
NoQuery == [fn |-> "none"]
NoResult == [exc |-> "none", value |-> <<>>]
NotAsked == query = NoQuery /\ result = NoResult
Sequential == inst = <<>> /\ disk = <<>>

\* the variables at the entry of __init__
Fresh ==
    /\ in_comment = FALSE
    /\ cell_locations = <<>>
    /\ scanned = 0
    /\ written = 0
    /\ cellLibFile = NoFile
    /\ LF = <<>>
    /\ multiLinesString = ParserInit.multiLinesString
    /\ commentMark = ParserInit.commentMark
    /\ groupList = ParserInit.groupList
    /\ groupListNum = ParserInit.groupListNum
    /\ openedGroupNumList = ParserInit.openedGroupNumList
    /\ lastOpenedGroupNum = ParserInit.lastOpenedGroupNum
    /\ libFileLine = ParserInit.libFileLine
    /\ stderr = ParserInit.stderr
    /\ exc = ParserInit.exc
    /\ libDic = NoDic

\* ------------------------------------------------------------------------
\* The parser, line by line
\* ------------------------------------------------------------------------
\* lines 160-255 on the next line of LF
ParseNext ==
    /\ pc = "parse"
    /\ libFileLine < Len(LF)
    /\ LET st == ParseLine(ParserState, LF[libFileLine + 1])
       IN  /\ SetParserState(st)
           /\ pc' = IF st.exc = "none" THEN "parse" ELSE "crashed"
    /\ UNCHANGED <<libFile, cellList, genVars, LF, libDic>>
    /\ UNCHANGED <<queryVars, parVars>>

\* lines 160-255 on a line that the file turns out to continue with
ReadLine ==
    /\ pc = "parse"
    /\ libFileLine = Len(LF)
    /\ Len(LF) < MaxLines
    /\ \E line \in ParseAlphabet :
          /\ LF' = Append(LF, line)
          /\ libFile' = [lines |-> LF', nl |-> TRUE]
          /\ LET st == ParseLine(ParserState, line)
             IN  /\ SetParserState(st)
                 /\ pc' = IF st.exc = "none" THEN "parse" ELSE "crashed"
    /\ UNCHANGED <<cellList, genVars, libDic>>
    /\ UNCHANGED <<queryVars, parVars>>

\* end of file: libertyParser returns groupList, __init__ calls organizeData
\* (lines 48-49, 257-279); groupList[0] raises IndexError on an empty list
EndOfFile ==
    /\ pc = "parse"
    /\ libFileLine = Len(LF)
    /\ IF Len(groupList) = 0
       THEN /\ exc' = "IndexError"
            /\ pc' = "crashed"
            /\ UNCHANGED libDic
       ELSE /\ libDic' = organizeData(groupList)
            /\ pc' = "done"
            /\ UNCHANGED exc
    /\ UNCHANGED <<libFile, cellList, genVars, LF, parserVars, stderr>>
    /\ UNCHANGED <<queryVars, parVars>>

\* ------------------------------------------------------------------------
\* Specification of the parse loop over arbitrary lines
\* ------------------------------------------------------------------------
Init ==
    /\ pc = "parse"
    /\ libFile = EmptyFile
    /\ cellList = <<>>
    /\ Fresh
    /\ NotAsked
    /\ Sequential

Next == ReadLine \/ EndOfFile

Spec == Init /\ [][Next]_vars

\* ------------------------------------------------------------------------
\* Specification of the parse loop over the lines that matter for comments
\* and continuations, among them a continuation line that is a lone
\* backslash
\* ------------------------------------------------------------------------
BareContinued == <<BSL>>
LoopAlphabet ==
    {LibOpen, CellOpen("FAKE"), Close, Simple("foo", "1"),
     CommentStart, CommentEnd, Continued, BareContinued, ContinuedEnd, Garbage}

\* lines 160-255 on a line of LoopAlphabet that the file turns out to
\* continue with
ReadLoopLine ==
    /\ pc = "parse"
    /\ libFileLine = Len(LF)
    /\ Len(LF) < MaxLines
    /\ \E line \in LoopAlphabet :
          /\ LF' = Append(LF, line)
          /\ libFile' = [lines |-> LF', nl |-> TRUE]
          /\ LET st == ParseLine(ParserState, line)
             IN  /\ SetParserState(st)
                 /\ pc' = IF st.exc = "none" THEN "parse" ELSE "crashed"
    /\ UNCHANGED <<cellList, genVars, libDic>>
    /\ UNCHANGED <<queryVars, parVars>>

NextLoop == ReadLoopLine \/ EndOfFile

SpecLoop == Init /\ [][NextLoop]_vars

\* ------------------------------------------------------------------------
\* Specification of the constructor (lines 18-49) on the files of Files
\* ------------------------------------------------------------------------
InitCtor ==
    /\ pc = "init"
    /\ libFile \in Files
    /\ cellList \in Requests(MaxRequest)
    /\ Fresh
    /\ NotAsked
    /\ Sequential

\* lines 43-48: which file is parsed
Construct ==
    /\ pc = "init"
    /\ IF Len(cellList) > 0
       THEN /\ pc' = "scan"
            /\ UNCHANGED LF
       ELSE /\ pc' = "parse"
            /\ LF' = libFile.lines
    /\ UNCHANGED <<libFile, cellList, genVars, parserVars, stderr, exc, libDic>>
    /\ UNCHANGED <<queryVars, parVars>>

\* lines 78-93: one iteration of the scan loop
ScanLine ==
    /\ pc = "scan"
    /\ scanned < Len(libFile.lines)
    /\ LET sc == ScanStep([in_comment |-> in_comment,
                           cell_locations |-> cell_locations],
                          libFile.lines[scanned + 1], scanned + 1)
       IN  /\ in_comment' = sc.in_comment
           /\ cell_locations' = sc.cell_locations
    /\ scanned' = scanned + 1
    /\ UNCHANGED <<pc, libFile, cellList, written, cellLibFile, LF, parserVars,
                   stderr, exc, libDic>>
    /\ UNCHANGED <<queryVars, parVars>>

RECURSIVE ReportMissing(_, _, _)
\* lines 101-102
ReportMissing(log, missing_cells, j) ==
    IF j > Len(missing_cells) THEN log
    ELSE ReportMissing(Append(log, [kind |-> "Error: cell is not in liberty file",
                                    cell |-> missing_cells[j]]),
                       missing_cells, j + 1)

\* lines 95-111: the missing-cell check, then the output file is opened and
\* the header written
CheckAndOpen ==
    /\ pc = "scan"
    /\ scanned = Len(libFile.lines)
    /\ LET missing_cells == MissingCells(cellList, DictKeys(cell_locations), 1)
       IN  IF Len(missing_cells) > 0
           THEN /\ stderr' = ReportMissing(stderr, missing_cells, 1)
                /\ exc' = "SystemExit(1)"
                /\ pc' = "exit"
                /\ UNCHANGED cellLibFile
           ELSE /\ cellLibFile' = WriteHeader(EmptyFile, libFile, cell_locations)
                /\ pc' = "write"
                /\ UNCHANGED <<stderr, exc>>
    /\ UNCHANGED <<libFile, cellList, in_comment, cell_locations, scanned, written,
                   LF, parserVars, libDic>>
    /\ UNCHANGED <<queryVars, parVars>>

\* lines 114-126: one iteration of `for cell in cellList`
WriteNextCell ==
    /\ pc = "write"
    /\ written < Len(cellList)
    /\ cellLibFile' = WriteCell(cellLibFile, libFile, cell_locations,
                                cellList[written + 1])
    /\ written' = written + 1
    /\ UNCHANGED <<pc, libFile, cellList, in_comment, cell_locations, scanned,
                   LF, parserVars, stderr, exc, libDic>>
    /\ UNCHANGED <<queryVars, parVars>>

\* lines 128-131 and 45-48: the closing brace is written, the file closed
\* and handed to the parser
CloseAndParse ==
    /\ pc = "write"
    /\ written = Len(cellList)
    /\ cellLibFile' = WriteLine(cellLibFile, <<RB>>, TRUE)
    /\ LF' = cellLibFile'.lines
    /\ pc' = "parse"
    /\ UNCHANGED <<libFile, cellList, in_comment, cell_locations, scanned, written,
                   parserVars, stderr, exc, libDic>>
    /\ UNCHANGED <<queryVars, parVars>>

NextCtor ==
    \/ Construct \/ ScanLine \/ CheckAndOpen \/ WriteNextCell \/ CloseAndParse
    \/ ParseNext \/ EndOfFile

SpecCtor == InitCtor /\ [][NextCtor]_vars

\* ------------------------------------------------------------------------
\* Specification of the constructor on libraries that declare a cell with
\* its name in double quotes
\* ------------------------------------------------------------------------
QuotedCellOpen(n) == <<SP, "cell", SP, LP, QUOTE, n, QUOTE, RP, SP, LB>>
QuotedCell == <<QuotedCellOpen("INV"), Simple("area", "1"), Close>>
QuotedBlocks == {QuotedCell, CellA, CellB}
QuotedFiles ==
    {[lines |-> <<LibOpen>> \o b1 \o b2 \o <<Close>>, nl |-> TRUE] :
        b1 \in QuotedBlocks, b2 \in QuotedBlocks}
QuotedRequests == {<< <<"INV">> >>, << <<"A">> >>, << <<"B">> >>, << <<"INV">>, <<"A">> >>}

InitQuoted ==
    /\ pc = "init"
    /\ libFile \in QuotedFiles
    /\ cellList \in QuotedRequests
    /\ Fresh
    /\ NotAsked
    /\ Sequential

SpecQuoted == InitQuoted /\ [][NextCtor]_vars

\* ------------------------------------------------------------------------
\* Specification of the constructor on libraries with a block comment that
\* opens behind a statement
\* ------------------------------------------------------------------------
TrailingCommentStart == <<"foo", SP, COLON, SP, "1", SEMI, SP, CS, SP, "x">>
TrailingComment == <<TrailingCommentStart, CellOpen("FAKE"), Close, CommentEnd>>
ScanFiles ==
    {[lines |-> h \o c \o bs \o <<Close>>, nl |-> TRUE] :
        h \in Headers, c \in {<<>>, TrailingComment}, bs \in BlockSeqs(1)}

InitScan ==
    /\ pc = "init"
    /\ libFile \in ScanFiles
    /\ cellList \in Requests(MaxRequest)
    /\ Fresh
    /\ NotAsked
    /\ Sequential

SpecScan == InitScan /\ [][NextCtor]_vars

\* ------------------------------------------------------------------------
\* Specification of a round trip: a file is parsed, the tree written with
\* restoreLib, and the written file parsed by a second parser
\* ------------------------------------------------------------------------
TableRow == <<SP, SP, "table", SP, COLON, SP, QUOTE, "x", QUOTE, SEMI>>
TableRows == <<SP, SP, "table", SP, COLON, SP, QUOTE, "x", ",", SP, "1", QUOTE, SEMI>>
ValuesRows ==
    <<SP, SP, "values", SP, LP, QUOTE, "1", ",", SP, "2", QUOTE, ",", SP,
      QUOTE, "x", QUOTE, RP, SEMI>>
ParenValue == <<SP, SP, "foo", SP, COLON, SP, LP, "1", RP, SP, "x", SEMI>>

\* what a cell may hold
Statements ==
    { <<Simple("area", "1")>>, <<Complex("foo", "1")>>, <<PinOpen("A"), Close>>,
      <<TableRow>>, <<TableRows>>, <<ValuesRows>>, <<ParenValue>> }

MaxStatements == 2

RECURSIVE StatementSeqs(_)
StatementSeqs(n) ==
    IF n = 0 THEN {<<>>}
    ELSE StatementSeqs(n - 1)
         \cup {b \o bs : b \in Statements, bs \in {x \in StatementSeqs(n - 1) : TRUE}}

\* library (L) { cell (INV) { ... } [cell (B) { }] }
RoundFiles ==
    {[lines |-> <<LibOpen, CellOpen("INV")>> \o body \o <<Close>> \o more \o <<Close>>,
      nl |-> TRUE] :
        body \in StatementSeqs(MaxStatements),
        more \in {<<>>, <<CellOpen("B"), Close>>}}

InitRound ==
    /\ pc = "init"
    /\ libFile \in RoundFiles
    /\ cellList = <<>>
    /\ Fresh
    /\ NotAsked
    /\ Sequential

\* restoreLib has been called on the first parser
Restored == cellLibFile # NoFile

\* restoreLib(out) on the finished parser (lines 283-349), then a second
\* parser is constructed on the written file (lines 42-48)
RestoreAndReparse ==
    /\ pc = "done"
    /\ ~Restored
    /\ LET rs == restoreLib(libDic)
       IN  /\ cellLibFile' = rs.f
           /\ IF rs.exc = "none"
              THEN /\ SetParserState(ParserInit)
                   /\ LF' = rs.f.lines
                   /\ libDic' = NoDic
                   /\ pc' = "parse"
              ELSE /\ SetParserState([ParserState EXCEPT !.exc = rs.exc])
                   /\ pc' = "crashed"
                   /\ UNCHANGED <<LF, libDic>>
    /\ UNCHANGED <<libFile, cellList, in_comment, cell_locations, scanned, written>>
    /\ UNCHANGED <<queryVars, parVars>>

NextRound == Construct \/ ParseNext \/ EndOfFile \/ RestoreAndReparse

SpecRound == InitRound /\ [][NextRound]_vars

\* ------------------------------------------------------------------------
\* Specification of the query calls on a finished parser.  The calls change
\* nothing of the parser, so one call per behaviour covers them all.
\* ------------------------------------------------------------------------
InitQuery ==
    /\ pc = "init"
    /\ libFile \in QueryFiles
    /\ cellList = <<>>
    /\ Fresh
    /\ NotAsked
    /\ Sequential

\* getLibPinInfo(cellList, bundleList, busList, pinList) on the finished parser
AskLibPinInfo ==
    /\ pc = "done"
    /\ query = NoQuery
    /\ \E cells \in NameLists, bundleList \in NameLists,
          busList \in NameLists, pinList \in NameLists :
          /\ query' = [fn |-> "getLibPinInfo", cellList |-> cells,
                       bundleList |-> bundleList, busList |-> busList,
                       pinList |-> pinList]
          /\ result' = IF PinInfoRaises(libDic, cells, bundleList)
                       THEN [exc |-> "TypeError", value |-> <<>>]
                       ELSE [exc |-> "none",
                             value |-> getLibPinInfo(libDic, cells, bundleList,
                                                     busList, pinList)]
    /\ UNCHANGED <<pc, libFile, cellList, genVars, LF, parserVars, stderr, exc,
                   libDic, parVars>>

\* getCellArea(cellList) on the finished parser
AskCellArea ==
    /\ pc = "done"
    /\ query = NoQuery
    /\ \E cells \in NameLists :
          /\ query' = [fn |-> "getCellArea", cellList |-> cells]
          /\ result' = [exc |-> "none", value |-> getCellArea(libDic, cells)]
    /\ UNCHANGED <<pc, libFile, cellList, genVars, LF, parserVars, stderr, exc,
                   libDic, parVars>>

NextQuery == Construct \/ ParseNext \/ EndOfFile \/ AskLibPinInfo \/ AskCellArea

SpecQuery == InitQuery /\ [][NextQuery]_vars

\* ------------------------------------------------------------------------
\* Specification of the constructor on libraries with several sibling
\* groups, some of them with descendants of their own
\* ------------------------------------------------------------------------
Leaf == <<CellOpen("A"), Simple("area", "1"), Close>>
Nested == <<CellOpen("B"), PinOpen("x"), TimingOpen, Close, Close, PinOpen("A"), Close, Close>>
Siblings == {Leaf, Nested, <<Simple("foo", "1")>>}

MaxSiblings == 3

RECURSIVE SiblingSeqs(_)
SiblingSeqs(n) ==
    IF n = 0 THEN {<<>>}
    ELSE SiblingSeqs(n - 1) \cup {b \o bs : b \in Siblings, bs \in SiblingSeqs(n - 1)}

TreeFiles ==
    {[lines |-> <<LibOpen>> \o bs \o <<Close>>, nl |-> TRUE] : bs \in SiblingSeqs(MaxSiblings)}

InitTree ==
    /\ pc = "init"
    /\ libFile \in TreeFiles
    /\ cellList = <<>>
    /\ Fresh
    /\ NotAsked
    /\ Sequential

NextTree == Construct \/ ParseNext \/ EndOfFile

SpecTree == InitTree /\ [][NextTree]_vars

\* ------------------------------------------------------------------------
\* Specification of two parsers constructed side by side on one library
\* file.  The files of the family are far shorter than an I/O buffer: what
\* f_out receives reaches the disk in one piece when the file is closed,
\* and the parser reads its file in one piece.  The source file is only
\* read; disk holds the reduced files by the suffix of their path.
\* ------------------------------------------------------------------------
RECURSIVE Join(_)
\* '_'.join(cellList), line 66
Join(cells) ==
    IF Len(cells) = 0 THEN <<>>
    ELSE IF Len(cells) = 1 THEN cells[1]
    ELSE cells[1] \o <<"_">> \o Join(Tail(cells))

RECURSIVE ScanAll(_, _, _)
\* lines 75-93: the whole scan loop
ScanAll(sc, f, i) ==
    IF i > Len(f.lines) THEN sc ELSE ScanAll(ScanStep(sc, f.lines[i], i), f, i + 1)

Locations(f) == ScanAll([in_comment |-> FALSE, cell_locations |-> <<>>], f, 1).cell_locations

RECURSIVE WriteCells(_, _, _, _, _)
\* lines 114-126: the whole loop `for cell in cellList`
WriteCells(out, f, loc, cells, j) ==
    IF j > Len(cells) THEN out
    ELSE WriteCells(WriteCell(out, f, loc, cells[j]), f, loc, cells, j + 1)

\* lines 110-129: everything genCellLibFile hands to f_out
ReducedText(f, cells) ==
    WriteLine(WriteCells(WriteHeader(EmptyFile, f, Locations(f)), f, Locations(f),
                         cells, 1),
              <<RB>>, TRUE)

\* a file written from its start over what the path holds by then
Overwrite(old, text) ==
    IF Len(old.lines) > Len(text.lines)
    THEN [lines |-> text.lines \o SubSeq(old.lines, Len(text.lines) + 1, Len(old.lines)),
          nl |-> old.nl]
    ELSE text

\* lines 48-49: the parse of a file's lines and organizeData, as the outcome
\* of the constructor
ParseOutcome(lines) ==
    LET st == ParseLines(ParserInit, lines, 1)
    IN  IF st.exc # "none" THEN [exc |-> st.exc, libDic |-> NoDic]
        ELSE IF Len(st.groupList) = 0 THEN [exc |-> "IndexError", libDic |-> NoDic]
        ELSE [exc |-> "none", libDic |-> organizeData(st.groupList)]

\* the outcome of libertyParser(libFile, cellList) with nothing beside it
RunAlone(f, cells) ==
    IF Len(cells) = 0 THEN ParseOutcome(f.lines)
    ELSE IF Len(MissingCells(cells, DictKeys(Locations(f)), 1)) > 0
    THEN [exc |-> "SystemExit(1)", libDic |-> NoDic]
    ELSE ParseOutcome(ReducedText(f, cells).lines)

Instances == 1..2
ParFiles == {f \in Files : f.nl /\ f.lines[1] = LibOpen /\ f.lines[Len(f.lines)] = Close}
ParRequests == {r \in Requests(MaxRequest) : \A j \in 1..Len(r) : r[j] # <<"FAKE">>}
    \cup {<< <<"FAKE">> >>}

InitPar ==
    /\ pc = "par"
    /\ libFile \in ParFiles
    /\ cellList = <<>>
    /\ Fresh
    /\ NotAsked
    /\ inst \in [Instances -> {[pc |-> "init", cellList |-> r, exc |-> "none",
                                libDic |-> NoDic] : r \in ParRequests}]
    /\ disk = <<>>

ParFrame ==
    UNCHANGED <<pc, libFile, cellList, genVars, LF, parserVars, stderr, exc, libDic,
                queryVars>>

\* lines 43-47 and 59-103: the scan of the source file and the missing-cell
\* check
Begin(i) ==
    /\ inst[i].pc = "init"
    /\ inst' = [inst EXCEPT ![i] =
          IF Len(@.cellList) = 0 THEN [@ EXCEPT !.pc = "read"]
          ELSE IF Len(MissingCells(@.cellList, DictKeys(Locations(libFile)), 1)) > 0
          THEN [@ EXCEPT !.pc = "exit", !.exc = "SystemExit(1)"]
          ELSE [@ EXCEPT !.pc = "open"]]
    /\ UNCHANGED disk
    /\ ParFrame

\* line 106: open(cellLibFile, 'w') creates the file or empties it
OpenOut(i) ==
    /\ inst[i].pc = "open"
    /\ disk' = DictSet(disk, Join(inst[i].cellList), EmptyFile)
    /\ inst' = [inst EXCEPT ![i].pc = "write"]
    /\ ParFrame

\* lines 107-129: the text is handed to f_out and reaches the file at the
\* end of the with block
WriteAndClose(i) ==
    /\ inst[i].pc = "write"
    /\ disk' = DictSet(disk, Join(inst[i].cellList),
                       Overwrite(DictGet(disk, Join(inst[i].cellList)),
                                 ReducedText(libFile, inst[i].cellList)))
    /\ inst' = [inst EXCEPT ![i].pc = "read"]
    /\ ParFrame

\* lines 48-49: the parser reads self.libFile, the reduced file when
\* there is a cell list
ReadAndParse(i) ==
    /\ inst[i].pc = "read"
    /\ LET lines == IF Len(inst[i].cellList) = 0 THEN libFile.lines
                    ELSE DictGet(disk, Join(inst[i].cellList)).lines
           o == ParseOutcome(lines)
       IN  inst' = [inst EXCEPT ![i] =
               [@ EXCEPT !.pc = IF o.exc = "none" THEN "done" ELSE "crashed",
                         !.exc = o.exc, !.libDic = o.libDic]]
    /\ UNCHANGED disk
    /\ ParFrame

NextPar ==
    \E i \in Instances : Begin(i) \/ OpenOut(i) \/ WriteAndClose(i) \/ ReadAndParse(i)

SpecPar == InitPar /\ [][NextPar]_vars

\* ------------------------------------------------------------------------
\* Reference reading of a source text, independent of the parser: which
\* lines lie in a block comment, the brace depth, the cell declarations.
\* ------------------------------------------------------------------------
NoSpaces(line) == SelectSeq(line, LAMBDA t : t # SP)
FirstTok(line) == IF NoSpaces(line) = <<>> THEN "" ELSE Head(NoSpaces(line))
LastTok(line) ==
    IF NoSpaces(line) = <<>> THEN "" ELSE NoSpaces(line)[Len(NoSpaces(line))]

\* is line a `cell (n) {` declaration
IsCellDecl(line, n) == NoSpaces(line) = <<"cell", LP>> \o n \o <<RP, LB>>
IsAnyCellDecl(line) == \E n \in CellNames : IsCellDecl(line, n)
DeclaredName(line) == CHOOSE n \in CellNames : IsCellDecl(line, n)

RECURSIVE InsideComment(_, _)
\* does line i lie inside a block comment: after a line that starts with /*
\* and does not end with */, up to the first line that ends with */
InsideComment(lines, i) ==
    IF i <= 1 THEN FALSE
    ELSE IF InsideComment(lines, i - 1) THEN LastTok(lines[i - 1]) # CE
    ELSE FirstTok(lines[i - 1]) = CS /\ LastTok(lines[i - 1]) # CE

IsComment(lines, i) == InsideComment(lines, i) \/ FirstTok(lines[i]) = CS
OpensGroup(lines, i) == ~IsComment(lines, i) /\ LastTok(lines[i]) = LB
ClosesGroup(lines, i) == ~IsComment(lines, i) /\ NoSpaces(lines[i]) = <<RB>>

RECURSIVE Depth(_, _)
\* number of groups open after line i
Depth(lines, i) ==
    IF i = 0 THEN 0
    ELSE Depth(lines, i - 1)
         + (IF OpensGroup(lines, i) THEN 1 ELSE 0)
         - (IF ClosesGroup(lines, i) THEN 1 ELSE 0)

\* every close has its open and every open its close
Balanced(lines) ==
    /\ \A i \in 0..Len(lines) : Depth(lines, i) >= 0
    /\ Depth(lines, Len(lines)) = 0
    /\ ~InsideComment(lines, Len(lines) + 1)

\* balanced groups under one top-level library group, every continued
\* statement completed by the line after its last continuation line
WellFormed(lines) ==
    /\ Balanced(lines)
    /\ \E i \in 1..Len(lines) :
          /\ OpensGroup(lines, i) /\ FirstTok(lines[i]) = "library"
          /\ \A j \in 1..Len(lines) :
                (j < i => Depth(lines, j) = 0 /\ ~OpensGroup(lines, j))
                /\ (j >= i /\ Depth(lines, j) = 0 => \A h \in (j + 1)..Len(lines) :
                        ~OpensGroup(lines, h))
    /\ \A i \in 1..Len(lines) :
          (~IsComment(lines, i) /\ LastTok(lines[i]) = BSL)
             => /\ i < Len(lines)
                /\ FirstTok(lines[i + 1]) # CS
                /\ LastTok(lines[i + 1]) \in {BSL, SEMI}

RECURSIVE DeclaredCells(_, _)
\* the names of the cell groups directly under the top-level group, in the
\* order of their declaration lines
DeclaredCells(lines, i) ==
    IF i = 0 THEN <<>>
    ELSE DeclaredCells(lines, i - 1)
         \o (IF OpensGroup(lines, i) /\ Depth(lines, i - 1) = 1
                /\ IsAnyCellDecl(lines[i])
             THEN <<DeclaredName(lines[i])>> ELSE <<>>)

\* ------------------------------------------------------------------------
\* Properties of the parse loop (specification Spec)
\* ------------------------------------------------------------------------
Names(l) == {l[j] : j \in 1..Len(l)}

\* C3: a `cell (NAME) {` line inside a block comment never yields NAME in
\* getCellList(): every listed name is declared by a line outside any comment.
C3_CommentedCellNeverListed ==
    pc = "done" =>
        \A n \in Names(getCellList(libDic)) :
            \E i \in 1..Len(LF) : IsCellDecl(LF[i], n) /\ ~IsComment(LF, i)

\* the lines i..Len(LF) are all simple attributes `foo : v;`
AllSimpleFoo(i) ==
    \A j \in i..Len(LF) : \E val \in {"1", "2"} : LF[j] = Simple("foo", val)
SimpleValues(i) == [j \in 1..(Len(LF) - i + 1) |-> <<LF[i + j - 1][5]>>]

\* C4: when one group holds the same simple-attribute key more than once,
\* the stored value is the ordered list of all values, not the last one.
C4_DuplicateSimpleKeyAccumulates ==
    (pc = "parse" /\ Len(LF) >= 3 /\ LF[1] = LibOpen /\ AllSimpleFoo(2))
        => DictGet(groupList[1], K("foo")) = List(SimpleValues(2))

\* C5: a group-close line read while no group is open is a recoverable
\* error: the parse goes on and the flat group list is unchanged.
C5_CloseOnEmptyStackRecoverable ==
    [][(pc = "parse" /\ ~commentMark /\ multiLinesString = <<>>
        /\ openedGroupNumList = <<>>
        /\ Len(LF') = Len(LF) + 1 /\ LF'[Len(LF')] = Close)
       => (pc' = "parse" /\ groupList' = groupList)]_vars

\* C6: when the input ends while a group is still open, the parser reports
\* an error instead of silently returning the tree.
C6_UnclosedGroupReported ==
    [][(pc = "parse" /\ pc' # "parse" /\ Len(LF') = Len(LF)
        /\ openedGroupNumList # <<>>)
       => (stderr' # stderr \/ exc' # "none")]_vars

\* ------------------------------------------------------------------------
\* Properties of the constructor (specification SpecCtor)
\* ------------------------------------------------------------------------
src == libFile.lines

\* the constructor has returned or raised
Finished == pc \in {"done", "crashed", "exit"}
\* genCellLibFile has returned the reduced file
Generated == Len(cellList) > 0 /\ pc \in {"parse", "done", "crashed"}

\* C1: for a well-formed input getCellList() returns exactly the names of the
\* cell groups directly under the library group, in declaration order.
C1_CellListInDeclarationOrder ==
    (pc = "done" /\ cellList = <<>> /\ WellFormed(src))
        => getCellList(libDic) = DeclaredCells(src, Len(src))

C1_Witness ==
    /\ pc = "done" /\ cellList = <<>> /\ WellFormed(src)
    /\ getCellList(libDic) = << <<"B">>, <<"A">> >>
    /\ \E i \in 1..Len(src) : IsComment(src, i) /\ IsAnyCellDecl(src[i])

\* a requested name is declared by a line outside any comment
Declared(n) == \E i \in 1..Len(src) : IsCellDecl(src[i], n) /\ ~IsComment(src, i)
AllDeclared == \A j \in 1..Len(cellList) : Declared(cellList[j])

\* the tree and the pin information a parser built on the original file has
FullParse == ParseLines(ParserInit, src, 1)
FullPinInfo ==
    getLibPinInfo(organizeData(FullParse.groupList), cellList, <<>>, <<>>, <<>>)

\* C2: for a well-formed file and a non-empty list of declared cells, the
\* parser built with the list gives the same getLibPinInfo(names) as the
\* parser built on the original file without a list.
C2_ReducedParseEqualsFullParse ==
    (Finished /\ Len(cellList) > 0 /\ AllDeclared /\ WellFormed(src))
        => /\ pc = "done"
           /\ getLibPinInfo(libDic, cellList, <<>>, <<>>, <<>>) = FullPinInfo

\* the recorded cells: names in first-seen order, each with its recorded line
RecordedLine(j) == cell_locations[j][2]
RecordedIndex(cell) == CHOOSE j \in 1..Len(cell_locations) : cell_locations[j][1] = cell

\* lines from the recorded line of a cell up to but excluding the recorded
\* line of the next recorded cell, or through the last line for the last one
CellRange(cell) ==
    LET j == RecordedIndex(cell)
    IN  SubSeq(src, RecordedLine(j),
               IF j = Len(cell_locations) THEN Len(src) ELSE RecordedLine(j + 1) - 1)

RECURSIVE CellRanges(_)
CellRanges(j) ==
    IF j = 0 THEN <<>> ELSE CellRanges(j - 1) \o CellRange(cellList[j])

\* C8: the reduced file is exactly the lines before the first recorded cell
\* declaration, then the range of each requested cell, then one `}` line.
C8_ReducedFileContent ==
    Generated =>
        cellLibFile =
            [lines |-> SubSeq(src, 1, RecordedLine(1) - 1)
                       \o CellRanges(Len(cellList)) \o <<Close>>,
             nl |-> TRUE]

\* the error messages for the requested names that are not declared
MissingReports ==
    LET miss == SelectSeq(cellList, LAMBDA n : ~Declared(n))
    IN  [j \in 1..Len(miss) |->
            [kind |-> "Error: cell is not in liberty file", cell |-> miss[j]]]

\* C9: if a requested name is not in the file, every missing name is
\* reported, the run ends with status 1 and no reduced file is created.
C9_MissingCellsReportedNoFile ==
    (Len(cellList) > 0 /\ ~AllDeclared /\ pc \notin {"init", "scan"})
        => /\ pc = "exit"
           /\ exc = "SystemExit(1)"
           /\ stderr = MissingReports
           /\ cellLibFile = NoFile

C9_Witness ==
    /\ pc = "exit"
    /\ Len(stderr) = 2 /\ stderr[1].cell # stderr[2].cell
    /\ \E n \in CellNames : Declared(n)

C9_WitnessOtherPresent ==
    /\ pc = "exit"
    /\ \E j \in 1..Len(cellList) : Declared(cellList[j])

\* C10: the reduced file of a brace-balanced file is brace-balanced: while
\* it is parsed no group-close meets an empty stack and the stack is empty
\* at the end of input.
C10_ReducedFileBalanced ==
    (Generated /\ Balanced(src))
        => /\ pc # "crashed"
           /\ pc = "done" => openedGroupNumList = <<>>

\* ------------------------------------------------------------------------
\* Properties of the round trip (specification SpecRound)
\* ------------------------------------------------------------------------
\* the tree of the first parser
Original == organizeData(FullParse.groupList)

\* the string-valued attributes of the dictionary at index g
Scalars(gl, g) ==
    {gl[g + 1][i] : i \in {j \in 1..Len(gl[g + 1]) :
                              /\ gl[g + 1][j][1] \notin ReservedKeys
                              /\ gl[g + 1][j][2].t = "str"}}

\* for each cell under the library, in order, its name and its scalars
CellScalars(gl) ==
    LET ch == SelectSeq(Children(gl, 0),
                        LAMBDA g : DictGet(gl[g + 1], K("type")) = Str(K("cell")))
    IN  [j \in 1..Len(ch) |->
            <<DictGet(gl[ch[j] + 1], K("name")).v, Scalars(gl, ch[j])>>]

RECURSIVE Nesting(_, _)
\* type, name and the nestings of the children in order
Nesting(gl, g) ==
    <<DictGet(gl[g + 1], K("type")).v, DictGet(gl[g + 1], K("name")).v,
      [j \in 1..Len(Children(gl, g)) |-> Nesting(gl, Children(gl, g)[j])]>>

\* the second parser has returned or raised
Reparsed == Restored /\ pc \in {"done", "crashed"}

\* C7: writing a parsed tree with restoreLib and parsing the written file
\* yields the same getCellList(), the same per-cell scalar attributes, the
\* same group nesting and the same order of children in each group.
C7_RoundTrip ==
    Reparsed =>
        /\ pc = "done"
        /\ getCellList(libDic) = getCellList(Original)
        /\ CellScalars(libDic) = CellScalars(Original)
        /\ Nesting(libDic, 0) = Nesting(Original, 0)

\* the round trip of the file `library (L) { cell (INV) { area : 1; pin (A) { } } }`
C7_ExampleRoundTrips ==
    (Reparsed /\ src = <<LibOpen, CellOpen("INV"), Simple("area", "1"),
                         PinOpen("A"), Close, Close, Close>>)
        => /\ pc = "done"
           /\ getCellList(libDic) = << <<"INV">> >>
           /\ CellScalars(libDic) = << << <<"INV">>, {<<K("area"), Str(<<"1">>)>>} >> >>
           /\ Nesting(libDic, 0) = Nesting(Original, 0)

\* ------------------------------------------------------------------------
\* Further properties of the constructor (specification SpecCtor)
\* ------------------------------------------------------------------------
\* C11: the cell segments of the reduced file are in the order of the
\* requested list, so getCellList() on the reduced parse equals that list.
C11_ReducedCellListIsRequest ==
    (Generated /\ Finished) => (pc = "done" /\ getCellList(libDic) = cellList)

\* the request names no cell that is the last recorded one
LastRecorded == cell_locations[Len(cell_locations)][1]
AvoidsLastRecorded == \A j \in 1..Len(cellList) : cellList[j] # LastRecorded

\* the part of C11 that the code keeps: requests that leave out the last
\* recorded cell, on files where every cell closes before the next one opens
C11_HoldsAwayFromLastCell ==
    (Generated /\ Finished /\ AvoidsLastRecorded /\ WellFormed(src))
        => (pc = "done" /\ getCellList(libDic) = cellList)

\* ------------------------------------------------------------------------
\* Further properties of the parse loop (specification Spec)
\* ------------------------------------------------------------------------
\* the line the last step has read
Appended == Len(LF') = Len(LF) + 1
NewLine == LF'[Len(LF')]

\* `key : value;`, `key (value);` and the two forms without `;`
AttributeLines ==
    {Simple("foo", "1"), Simple("foo", "2"), Complex("foo", "1"),
     SimpleNoSemi("foo", "1"), ComplexNoSemi("foo", "2")}

\* C12: an attribute line read while no group is open ends the parse with
\* an exception and is stored in no group record.
C12_AttributeOutsideGroupIsFatal ==
    [][(pc = "parse" /\ ~commentMark /\ multiLinesString = <<>>
        /\ openedGroupNumList = <<>>
        /\ Appended /\ NewLine \in AttributeLines)
       => (pc' = "crashed" /\ groupList' = groupList)]_vars

\* ------------------------------------------------------------------------
\* The query calls
\* ------------------------------------------------------------------------
KeySet(d) == {d[i][1] : i \in 1..Len(d)}
\* the dictionary stored under key k, empty when the key is absent
Under(d, k) == IF DictHas(d, k) THEN DictGet(d, k).v ELSE <<>>
\* every key of d is named in a non-empty filter list
Allowed(filter, d) == filter = <<>> \/ \A k \in KeySet(d) : InList(filter, k)
PinInfoCells == Under(result.value, K("cell"))
Asked(fn) == pc = "done" /\ query.fn = fn

FiltersRespected ==
    /\ Allowed(query.cellList, PinInfoCells)
    /\ \A c \in KeySet(PinInfoCells) :
          LET cell == DictGet(PinInfoCells, c).v
          IN  /\ Allowed(query.pinList, Under(cell, K("pin")))
              /\ Allowed(query.bundleList, Under(cell, K("bundle")))
              /\ Allowed(query.busList, Under(cell, K("bus")))
              /\ \A kind \in {"bundle", "bus"} :
                    \A n \in KeySet(Under(cell, K(kind))) :
                        Allowed(query.pinList,
                                Under(DictGet(Under(cell, K(kind)), n).v, K("pin")))

\* C13: getLibPinInfo raises on no filter (it raises only where the call
\* without filters raises too), and with a non-empty filter list every cell,
\* bundle, bus and pin key of the result, the pins predeclared from a
\* bundle's members included, is named in the respective list.
C13_FiltersNeverRaiseAndOmit ==
    Asked("getLibPinInfo") =>
        /\ result.exc # "none" => PinInfoRaises(libDic, <<>>, <<>>)
        /\ result.exc = "none" => FiltersRespected

\* the filters are respected whenever no pin filter is given
C13_HoldsWithoutPinFilter ==
    (Asked("getLibPinInfo") /\ query.pinList = <<>>) =>
        /\ result.exc # "none" => PinInfoRaises(libDic, <<>>, <<>>)
        /\ result.exc = "none" => FiltersRespected

\* the cell dictionaries of the parsed library that carry the name n
CellsNamed(n) ==
    {g \in {Children(libDic, 0)[i] : i \in 1..Len(Children(libDic, 0))} :
        TypeIs(libDic[g + 1], "cell") /\ DictGet(libDic[g + 1], K("name")).v = n}
Requested == {query.cellList[j] : j \in 1..Len(query.cellList)}

\* C14: getCellArea(names) with a non-empty list never raises and returns
\* one entry per requested name and no other: the area value of the cell of
\* that name, "" when the cell has no area attribute or is not declared.
C14_CellAreaOfRequestedNames ==
    (Asked("getCellArea") /\ query.cellList # <<>>) =>
        /\ result.exc = "none"
        /\ KeySet(result.value) = Requested
        /\ Len(result.value) = Cardinality(Requested)
        /\ \A n \in Requested :
              /\ CellsNamed(n) = {} => DictGet(result.value, n) = Str(<<>>)
              /\ \A g \in CellsNamed(n) :
                    DictGet(result.value, n) =
                        IF DictHas(libDic[g + 1], K("area"))
                        THEN DictGet(libDic[g + 1], K("area")) ELSE Str(<<>>)

\* cell A with area 1 and the undeclared FAKE are requested, B is declared
\* but not requested
C14_Witness ==
    /\ Asked("getCellArea")
    /\ query.cellList = <<K("A"), K("FAKE")>>
    /\ getCellList(libDic) = <<K("A"), K("B")>>
    /\ result.value = << <<K("A"), Str(K("1"))>>, <<K("FAKE"), Str(<<>>)>> >>

\* ------------------------------------------------------------------------
\* Two constructors side by side
\* ------------------------------------------------------------------------
Ended(i) == inst[i].pc \in {"done", "crashed", "exit"}
Outcome(i) == [exc |-> inst[i].exc, libDic |-> inst[i].libDic]

\* C15: whatever the interleaving of two constructors, each ends with the
\* tree (or the exception) it ends with when it runs alone, also when both
\* are given the same library file and the same non-empty cell list.
C15_InstancesIndependent ==
    (pc = "par") =>
        \A i \in Instances : Ended(i) => Outcome(i) = RunAlone(libFile, inst[i].cellList)

\* the instances are independent whenever their reduced files differ
C15_HoldsOnDistinctFiles ==
    (pc = "par" /\ Join(inst[1].cellList) # Join(inst[2].cellList)) =>
        \A i \in Instances : Ended(i) => Outcome(i) = RunAlone(libFile, inst[i].cellList)

\* ------------------------------------------------------------------------
\* The ranges of the reduced file (specification SpecCtor)
\* ------------------------------------------------------------------------
\* the numbers of the source lines written for the j-th requested cell
RangeOf(j) ==
    LET k == RecordedIndex(cellList[j])
    IN  RecordedLine(k)..(IF k = Len(cell_locations) THEN Len(src)
                            ELSE RecordedLine(k + 1) - 1)

RangesDisjoint ==
    /\ \A j, h \in 1..Len(cellList) : j # h => RangeOf(j) \cap RangeOf(h) = {}
    /\ \A j \in 1..Len(cellList) : \A i \in RangeOf(j) :
          IsAnyCellDecl(src[i]) /\ ~IsComment(src, i) => IsCellDecl(src[i], cellList[j])

\* C16: for any file and any requested list the written ranges are pairwise
\* disjoint, so that no source line is written twice, and no range holds
\* the declaration line of a cell of another name.
C16_RangesNeverOverlap == Generated => RangesDisjoint

NoDuplicates(l) == \A j, h \in 1..Len(l) : j # h => l[j] # l[h]

\* the ranges are disjoint when no name is requested twice and no cell is
\* declared twice
C16_HoldsWithoutDuplicates ==
    (Generated /\ NoDuplicates(cellList) /\ WellFormed(src)
        /\ NoDuplicates(DeclaredCells(src, Len(src))))
        => RangesDisjoint

\* ------------------------------------------------------------------------
\* Block comments read token by token: a comment opens at a /* outside a
\* comment, wherever it stands in its line, and closes at the next */
\* ------------------------------------------------------------------------
RECURSIVE OpenAfterTokens(_, _, _)
OpenAfterTokens(line, k, open) ==
    IF k > Len(line) THEN open
    ELSE OpenAfterTokens(line, k + 1,
             IF ~open /\ line[k] = CS THEN TRUE
             ELSE IF open /\ line[k] = CE THEN FALSE
             ELSE open)

RECURSIVE CommentOpenAfter(_, _)
\* is a block comment open at the end of line i
CommentOpenAfter(lines, i) ==
    IF i = 0 THEN FALSE
    ELSE OpenAfterTokens(lines[i], 1, CommentOpenAfter(lines, i - 1))

\* line i begins inside a block comment, or begins with one
LiesInComment(lines, i) == CommentOpenAfter(lines, i - 1) \/ FirstTok(lines[i]) = CS

RecordedOutsideComments ==
    \A k \in 1..Len(cell_locations) : ~LiesInComment(src, RecordedLine(k))

\* C17: no line the scan has recorded as a cell declaration lies inside a
\* block comment.
C17_NoRecordedLineInComment == (pc # "init") => RecordedOutsideComments

\* every block comment of these libraries opens at the start of a line
CommentsLead ==
    \A i \in 1..Len(src) : \A k \in 1..Len(src[i]) :
        src[i][k] = CS => \A h \in 1..(k - 1) : src[i][h] = SP

\* no recorded line lies in a comment when every comment opens at the start
\* of a line
C17_HoldsForLeadingComments ==
    (pc # "init" /\ CommentsLead) => RecordedOutsideComments

\* ------------------------------------------------------------------------
\* Frame properties of the parse loop (specification SpecLoop)
\* ------------------------------------------------------------------------
\* the last token of the line that is not white space
EndsWith(line, t) == RStrip(line) # <<>> /\ RStrip(line)[Len(RStrip(line))] = t

GroupsUnchanged ==
    /\ groupList' = groupList
    /\ groupListNum' = groupListNum
    /\ openedGroupNumList' = openedGroupNumList
    /\ lastOpenedGroupNum' = lastOpenedGroupNum

\* C18: in comment mode a line, whatever it looks like, leaves the group
\* list with all attributes, the open-group stack and the continuation
\* buffer as they are and logs nothing; the mode ends with the first line
\* that ends with */.
C18_CommentModeSkipsLines ==
    [][(pc = "parse" /\ commentMark /\ Appended)
       => /\ pc' = "parse"
          /\ GroupsUnchanged
          /\ multiLinesString' = multiLinesString
          /\ stderr' = stderr
          /\ commentMark' = ~EndsWith(NewLine, CE)]_vars

\* a group open and an attribute have been read in comment mode
C18_Witness ==
    /\ pc = "parse" /\ commentMark
    /\ LF = <<LibOpen, CommentStart, CellOpen("FAKE"), Simple("foo", "1")>>
    /\ Len(groupList) = 1 /\ openedGroupNumList = <<0>>
    /\ multiLinesString = <<>>

\* the line ends with the continuation marker
IsContinuation(line) == Len(line) > 0 /\ line[Len(line)] = BSL
LastLine == LF[Len(LF)]
NotFinishedRightly ==
    [kind |-> "Error: multi-lines is not finished rightly", line |-> Len(LF')]

Recovered ==
    /\ pc' = "parse"
    /\ stderr' = Append(stderr, NotFinishedRightly)
    /\ multiLinesString' = <<>>
    /\ GroupsUnchanged
    /\ commentMark' = commentMark

\* C19: a continuation line changes nothing but the buffer; when the line
\* after one or more continuation lines is neither a continuation line nor
\* ends with `;`, the error is logged, the buffer emptied, the parse goes on
\* and the group list, the stack and the attributes are as before, so that
\* the next line meets the state of a parse with no continuation pending.
C19_UnfinishedContinuationRecovers ==
    [][(pc = "parse" /\ ~commentMark /\ Appended)
       => /\ IsContinuation(NewLine)
             => (pc' = "parse" /\ GroupsUnchanged /\ stderr' = stderr)
          /\ (Len(LF) > 0 /\ IsContinuation(LastLine)
              /\ ~IsContinuation(NewLine) /\ ~EndsWith(NewLine, SEMI))
             => Recovered]_vars

\* the same when the continuation lines have left text in the buffer
C19_HoldsWithTextPending ==
    [][(pc = "parse" /\ ~commentMark /\ Appended)
       => /\ IsContinuation(NewLine)
             => (pc' = "parse" /\ GroupsUnchanged /\ stderr' = stderr)
          /\ (multiLinesString # <<>>
              /\ ~IsContinuation(NewLine) /\ ~EndsWith(NewLine, SEMI))
             => Recovered]_vars

\* the logical line the classification sees: the buffer followed by the
\* line up to its `;`
Logical == multiLinesString \o RStrip(NewLine)

Unrecognized(line) ==
    /\ ~Matches(_complex_attr_re, line) /\ ~Matches(_simple_attr_re, line)
    /\ ~Matches(_group_re, line) /\ ~Matches(_group_done_re, line)
    /\ ~Matches(_comment_start_re, line) /\ ~Matches(_empty_line_re, line)
    /\ ~Matches(_special_complex_attr_re, line)
    /\ ~Matches(_special_simple_attr_re, line)

Unrecognizable == [kind |-> "Error: Unrecognizable line", line |-> Len(LF')]

\* C20: a logical line of none of the recognized shapes is logged and
\* leaves the group list with all attributes, the open-group stack, the
\* current-group index and the comment flag as they are; the parse goes on
\* with an empty continuation buffer.
C20_UnrecognizedLineOnlyLogged ==
    [][(pc = "parse" /\ ~commentMark /\ Appended
        /\ ~Matches(_multilines_re, NewLine)
        /\ (multiLinesString # <<>> => EndsWith(NewLine, SEMI))
        /\ Unrecognized(Logical))
       => /\ pc' = "parse"
          /\ stderr' = Append(stderr, Unrecognizable)
          /\ GroupsUnchanged
          /\ commentMark' = commentMark
          /\ multiLinesString' = <<>>]_vars

\* an unrecognized line has been logged inside an open group and the line
\* after it has opened a group
C20_Witness ==
    /\ pc = "parse"
    /\ LF = <<LibOpen, Garbage, CellOpen("FAKE")>>
    /\ stderr = <<[kind |-> "Error: Unrecognizable line", line |-> 2]>>
    /\ Len(groupList) = 2 /\ openedGroupNumList = <<0, 1>>

\* a joined logical line of no recognized shape has been logged
C20_WitnessJoined ==
    /\ pc = "parse"
    /\ LF = <<LibOpen, Continued, Simple("foo", "1")>>
    /\ stderr = <<[kind |-> "Error: Unrecognizable line", line |-> 3]>>
    /\ multiLinesString = <<>> /\ Len(groupList) = 1

\* ------------------------------------------------------------------------
\* The tree (specifications SpecTree, SpecLoop and Spec)
\* ------------------------------------------------------------------------
\* the parent index a record of the flat list was created with
Father(gl, i) == DictGet(gl[i + 1], K("fatherGroupNum")).v[1]
RECURSIVE Ascending(_, _, _)
\* the indices i..n-1 of the flat list whose parent is g, in ascending order
Ascending(gl, g, i) ==
    IF i >= Len(gl) THEN <<>>
    ELSE (IF Father(gl, i) = g THEN <<i>> ELSE <<>>) \o Ascending(gl, g, i + 1)

\* C21: after organizeData the child list of every record holds exactly the
\* records whose parent index is that record, in ascending flat-list order,
\* also for three siblings and for siblings with descendants between them.
C21_ChildrenInDeclarationOrder ==
    (pc = "done") =>
        \A g \in 0..(Len(libDic) - 1) : Children(libDic, g) = Ascending(groupList, g, 1)

\* the library has three children, the first two with children of their own
C21_Witness ==
    /\ pc = "done"
    /\ Children(libDic, 0) = <<1, 5, 9>>
    /\ Children(libDic, 1) = <<2, 4>>
    /\ Children(libDic, 5) = <<6, 8>>

\* what identifies a record: its parent, type and name
Identity(d) ==
    <<DictGet(d, K("fatherGroupNum")), DictGet(d, K("type")), DictGet(d, K("name"))>>
StackTop == IF openedGroupNumList = <<>> THEN -1
            ELSE openedGroupNumList[Len(openedGroupNumList)]
GroupOpenLines == {LibOpen, CellOpen("A"), CellOpen("FAKE")}

DepthOf(gl, i) == DictGet(gl[i + 1], K("depth")).v[1]
DeeperThanParent(gl) ==
    \A i \in 0..(Len(gl) - 1) :
        Father(gl, i) >= 0 => DepthOf(gl, i) > DepthOf(gl, Father(gl, i))

\* C23: in every parsed tree the depth of a child record (the width of the
\* leading whitespace of its group-open line) is strictly greater than the
\* depth of its parent record.
C23_ChildDeeperThanParent ==
    (pc = "done") => DeeperThanParent(groupList)

\* the depth of a record is the number of whitespace tokens its line begins with
C23_DepthIsLeadingWhitespace ==
    [][(pc = "parse" /\ Appended /\ Len(groupList') > Len(groupList))
       => \E n \in 0..Len(NewLine) :
             /\ DepthOf(groupList', Len(groupList)) = n
             /\ \A j \in 1..n : NewLine[j] = SP
             /\ NewLine[n + 1] # SP]_vars

\* the indices of the records found by walking `group` lists from record g
RECURSIVE Flat(_)
Flat(seqs) == IF seqs = <<>> THEN <<>> ELSE Head(seqs) \o Flat(Tail(seqs))
RECURSIVE InTree(_, _, _)
InTree(gl, g, fuel) ==
    IF fuel = 0 THEN <<g>>
    ELSE <<g>> \o Flat([k \in 1..Len(Children(gl, g)) |->
                            InTree(gl, Children(gl, g)[k], fuel - 1)])
Count(seq, x) == Cardinality({k \in 1..Len(seq) : seq[k] = x})
TopLevel(gl) == Ascending(gl, -1, 0)

\* C24: reorganization loses no record: every group opened in the source,
\* a second or later top-level group included, is reachable exactly once
\* from the tree that organizeData returns.
C24_NoRecordLost ==
    (pc = "done")
        => \A i \in 0..(Len(groupList) - 1) :
              Count(InTree(libDic, 0, Len(groupList)), i) = 1

\* every record below the first top-level group is reachable exactly once
C24_HoldsBelowFirstGroup ==
    (pc = "done" /\ TopLevel(groupList) = <<0>>)
        => \A i \in 0..(Len(groupList) - 1) :
              Count(InTree(libDic, 0, Len(groupList)), i) = 1

\* the argument texts stored under a key, in order
Values(val) == IF val.t = "list" THEN val.v ELSE <<val.v>>
KeyPosition(d, key) == CHOOSE j \in 1..Len(d) : d[j][1] = key
Foo == K("foo")
ComplexLines == {Complex("foo", "1"), ComplexNoSemi("foo", "2")}
SimpleLines == {Simple("foo", "1"), Simple("foo", "2"), SimpleNoSemi("foo", "1")}

\* a complex attribute line read in a group: the first occurrence stores one
\* string, a later one makes the value the list of all texts in source order
Accumulated(g) ==
    IF DictHas(groupList[g], Foo)
    THEN /\ DictGet(groupList'[g], Foo).t = "list"
         /\ Len(Values(DictGet(groupList'[g], Foo))) =
               Len(Values(DictGet(groupList[g], Foo))) + 1
    ELSE /\ DictHas(groupList'[g], Foo)
         /\ DictGet(groupList'[g], Foo).t = "str"

\* no line takes a stored value away or moves the key
Kept(g) ==
    DictHas(groupList[g], Foo)
        => /\ DictHas(groupList'[g], Foo)
           /\ KeyPosition(groupList'[g], Foo) = KeyPosition(groupList[g], Foo)
           /\ LET old == Values(DictGet(groupList[g], Foo))
                  new == Values(DictGet(groupList'[g], Foo))
              IN  Len(new) >= Len(old) /\ SubSeq(new, 1, Len(old)) = old

Accumulates ==
    /\ \A g \in 1..Len(groupList) : Kept(g)
    /\ (~commentMark /\ multiLinesString = <<>> /\ openedGroupNumList # <<>>
            /\ NewLine \in ComplexLines)
          => Accumulated(StackTop + 1)

\* C25: a complex attribute stores one string at its first occurrence and
\* the list of all argument texts in source order from the second on; the
\* key keeps its position, and no attribute line with the same key drops a
\* value stored before.
C25_ComplexValuesAccumulate ==
    [][(pc = "parse" /\ Appended) => Accumulates]_vars

\* the same when no simple attribute line of that key is read
C25_HoldsWithoutSimpleLine ==
    [][(pc = "parse" /\ Appended /\ NewLine \notin SimpleLines) => Accumulates]_vars

\* the open-group stack against the flat list and the current-group index
StackConsistent ==
    /\ \A k \in 1..Len(openedGroupNumList) :
          /\ openedGroupNumList[k] \in 0..(Len(groupList) - 1)
          /\ Father(groupList, openedGroupNumList[k]) =
                (IF k = 1 THEN -1 ELSE openedGroupNumList[k - 1])
          /\ k > 1 => openedGroupNumList[k - 1] < openedGroupNumList[k]
    /\ lastOpenedGroupNum = StackTop

\* an attribute line read in a group is stored in the record on the stack top
StoredAtStackTop ==
    (pc = "parse" /\ Appended /\ ~commentMark /\ multiLinesString = <<>>
        /\ openedGroupNumList # <<>> /\ NewLine = Simple("foo", "1"))
      => /\ DictHas(groupList'[StackTop + 1], Foo)
         /\ DictGet(groupList'[StackTop + 1], Foo) = Str(<<"1">>)
         /\ \A g \in 1..Len(groupList) : g # StackTop + 1 => groupList'[g] = groupList[g]

\* C26: at every line boundary the open-group stack is a strictly increasing
\* sequence of valid indices, each element's parent is the element below it
\* (-1 for the bottom one) and lastOpenedGroupNum is the stack top (-1 for
\* the empty stack); so an attribute after a child's close is stored in the
\* child's parent.
C26_StackMirrorsOpenGroups ==
    [](pc \in {"parse", "done"} => StackConsistent) /\ [][StoredAtStackTop]_vars

\* an attribute read after the close of a child went to the child's parent
C26_Witness ==
    /\ pc = "parse"
    /\ LF = <<LibOpen, CellOpen("FAKE"), Close, Simple("foo", "1")>>
    /\ openedGroupNumList = <<0>> /\ lastOpenedGroupNum = 0
    /\ DictHas(groupList[1], Foo) /\ ~DictHas(groupList[2], Foo)

\* the step that finds the end of the file
AtEndOfFile == pc = "parse" /\ LF' = LF /\ pc' # "parse"

\* C27: the constructor on a file that opens no group (empty, or blank
\* lines, comments and unrecognizable lines only) completes without an
\* exception, and getCellList() returns [].
C27_NoGroupGivesEmptyCellList ==
    [][(AtEndOfFile /\ groupList = <<>>)
       => (pc' = "done" /\ exc' = "none" /\ getCellList(libDic') = <<>>)]_vars

\* with one group or more the constructor completes
C27_HoldsWithAGroup ==
    [][(AtEndOfFile /\ groupList # <<>>) => (pc' = "done" /\ exc' = "none")]_vars

\* ------------------------------------------------------------------------
\* Cell names in the subsetter and in the parser (specification SpecQuoted)
\* ------------------------------------------------------------------------
ReducedParseDone == pc = "done" /\ cellList # <<>>
ListsRequested ==
    \A k \in 1..Len(cellList) : InList(getCellList(libDic), cellList[k])

\* C28: every name the subsetter accepts as declared is returned under that
\* name by getCellList() on the parse of the reduced file, for a declaration
\* with the name in double quotes as for one without.
C28_SubsetterAndParserAgreeOnNames ==
    ReducedParseDone => ListsRequested

\* the same for names declared without quotes
C28_HoldsForUnquotedNames ==
    (ReducedParseDone /\ ~InList(cellList, <<"INV">>)) => ListsRequested

\* the parser keeps the quotes of the declaration in the name
C28_ParserKeepsQuotes ==
    (ReducedParseDone /\ InList(cellList, <<"INV">>))
        => InList(getCellList(libDic), <<QUOTE, "INV", QUOTE>>)

C28_QuotedParsed ==
    /\ ReducedParseDone /\ cellList = << <<"INV">> >>
    /\ getCellList(libDic) = << <<QUOTE, "INV", QUOTE>> >>

\* ------------------------------------------------------------------------
\* Header and ranges of the reduced file (specification SpecCtor)
\* ------------------------------------------------------------------------
\* the first line that declares a cell outside the comments
EarliestDeclaration ==
    CHOOSE i \in 1..Len(src) :
        /\ IsAnyCellDecl(src[i]) /\ ~IsComment(src, i)
        /\ \A h \in 1..(i - 1) : ~(IsAnyCellDecl(src[h]) /\ ~IsComment(src, h))

RangesStartAtDeclaration ==
    \A j \in 1..Len(cellList) :
        /\ RangeOf(j) # {}
        /\ IsCellDecl(src[RecordedLine(RecordedIndex(cellList[j]))], cellList[j])

HeaderWritten == pc = "scan" /\ pc' = "write"

\* C29: the range written for a requested cell is not empty and begins with
\* a declaration line of that cell, and the header written is exactly the
\* lines before the earliest cell declaration of the file, also when a cell
\* name is declared more than once.
C29_RangesAndHeader ==
    /\ [](Generated => RangesStartAtDeclaration)
    /\ [][HeaderWritten
            => cellLibFile'.lines = SubSeq(src, 1, EarliestDeclaration - 1)]_vars

\* the same for the files that declare no cell twice
C29_HoldsWithoutDuplicates ==
    /\ [](Generated /\ NoDuplicates(DeclaredCells(src, Len(src)))
            => RangesStartAtDeclaration)
    /\ [][HeaderWritten /\ NoDuplicates(DeclaredCells(src, Len(src)))
            => cellLibFile'.lines = SubSeq(src, 1, EarliestDeclaration - 1)]_vars

\* the recorded line of a requested cell is always a declaration of it
C29_RecordedLineDeclaresCell ==
    Generated => \A j \in 1..Len(cellList) :
        IsCellDecl(src[RecordedLine(RecordedIndex(cellList[j]))], cellList[j])

\* ------------------------------------------------------------------------
\* A continuation cut off by the end of the file (specification SpecLoop)
\* ------------------------------------------------------------------------
\* C30: when the file ends while the continuation buffer holds text, the
\* parser logs the unfinished multi-line statement.
C30_ContinuationCutByEndOfFileLogged ==
    [][(AtEndOfFile /\ multiLinesString # <<>>) => Len(stderr') > Len(stderr)]_vars

\* a continuation followed by a line that does not finish it is logged
C30_HoldsBeforeEndOfFile ==
    [][(pc = "parse" /\ Appended /\ ~commentMark /\ multiLinesString # <<>>
        /\ ~IsContinuation(NewLine) /\ ~EndsWith(NewLine, SEMI))
       => (Len(stderr') = Len(stderr) + 1
           /\ stderr'[Len(stderr')] = NotFinishedRightly)]_vars

====
